---- MODULE Spec2Model ----
(***************************************************************************)
(* A model of the automata kernel of kntjspr/automata-new: the regular     *)
(* expression parser, Thompson's construction (NFA), subset construction   *)
(* and partition-refinement minimisation (DFA), the DFA product            *)
(* operations and DFA matching, the pushdown automaton with its            *)
(* breadth-first acceptance tests and the conversion of a grammar to it,   *)
(* and the approximate matcher with its Levenshtein NFA.                   *)
(*                                                                         *)
(* Automata are records that mirror the private fields of the C++ classes. *)
(* A field exc, not present in the C++ classes, holds the name of the      *)
(* exception that a construction threw ("" when none was thrown): an       *)
(* operator that models a throwing member function returns the object as   *)
(* it was when the exception left the function, with exc set.              *)
(***************************************************************************)
EXTENDS Integers, Sequences, FiniteSets, TLC

(***************************************************************************)
(* Symbols (common.hpp).  A Symbol is a char; it is modelled by a string   *)
(* of one character, and '\0' by the string "NUL".  Ascii lists the        *)
(* printable characters 0x20..0x7E in the order of their codes, which is   *)
(* the order std::set<char> iterates in; the character 0x60, which a TLA+  *)
(* string cannot hold, is written "GRAVE".                                 *)
(***************************************************************************)
EPSILON == "NUL"

Ascii ==
  <<
    " ", "!", "\"", "#", "$", "%", "&", "'", "(", ")", "*", "+",
    ",", "-", ".", "/", "0", "1", "2", "3", "4", "5", "6", "7",
    "8", "9", ":", ";", "<", "=", ">", "?", "@", "A", "B", "C",
    "D", "E", "F", "G", "H", "I", "J", "K", "L", "M", "N", "O",
    "P", "Q", "R", "S", "T", "U", "V", "W", "X", "Y", "Z", "[",
    "\\", "]", "^", "_", "GRAVE", "a", "b", "c", "d", "e", "f", "g",
    "h", "i", "j", "k", "l", "m", "n", "o", "p", "q", "r", "s",
    "t", "u", "v", "w", "x", "y", "z", "{", "|", "}", "~"
  >>

\* The position of a printable character in Ascii, its code being 31 + that.
AsciiIndex(c) == CHOOSE i \in 1..Len(Ascii) : Ascii[i] = c

\* The symbols of S in the iteration order of std::set<char>.
SortedSymbols(S) ==
  (IF EPSILON \in S THEN <<EPSILON>> ELSE <<>>) \o SelectSeq(Ascii, LAMBDA c : c \in S)

Min(S) == CHOOSE x \in S : \A y \in S : x <= y

\* The integers of S in ascending order: the iteration order of std::set<StateId>.
RECURSIVE SortedIds(_)
SortedIds(S) ==
  IF S = {} THEN <<>> ELSE <<Min(S)>> \o SortedIds(S \ {Min(S)})

Range(f) == {f[x] : x \in DOMAIN f}

EmptyMap == [x \in {} |-> x]

\* std::map::emplace: the key is added unless it is already there.
Emplace(m, k, v) ==
  IF k \in DOMAIN m THEN m
  ELSE [x \in DOMAIN m \cup {k} |-> IF x = k THEN v ELSE m[x]]

\* emplace of the same value under each key of ks.
EmplaceAll(m, ks, v) ==
  [x \in DOMAIN m \cup ks |-> IF x \in DOMAIN m THEN m[x] ELSE v]

(***************************************************************************)
(* State and Transition (state.hpp, transition.hpp).  The label of a       *)
(* state is derived from its id and is left out.                           *)
(***************************************************************************)
State(isAccepting, isStart) == [isAccepting |-> isAccepting, isStart |-> isStart]

Transition(from, to, symbol) == [from |-> from, to |-> to, symbol |-> symbol]

(***************************************************************************)
(* NFA (nfa.cpp).                                                          *)
(***************************************************************************)
NewNFA ==
  [states |-> EmptyMap, transitions |-> <<>>, startState |-> -1,
   acceptingStates |-> {}, nextStateId |-> 0, exc |-> ""]

NFA_addState(n, isAccepting) ==
  LET id == n.nextStateId
      st == Emplace(n.states, id, State(isAccepting, DOMAIN n.states = {}))
  IN  [n EXCEPT !.nextStateId = id + 1,
                !.states = st,
                !.startState = IF Cardinality(DOMAIN st) = 1 THEN id ELSE @,
                !.acceptingStates = IF isAccepting THEN @ \cup {id} ELSE @]

NFA_setStartState(n, id) ==
  IF n.exc # "" THEN n
  ELSE IF id \notin DOMAIN n.states THEN [n EXCEPT !.exc = "InvalidStateException"]
  ELSE LET s1 == IF n.startState >= 0 /\ n.startState \in DOMAIN n.states
                 THEN [n.states EXCEPT ![n.startState].isStart = FALSE]
                 ELSE n.states
       IN  [n EXCEPT !.startState = id, !.states = [s1 EXCEPT ![id].isStart = TRUE]]

NFA_setAcceptingState(n, id, accepting) ==
  IF n.exc # "" THEN n
  ELSE IF id \notin DOMAIN n.states THEN [n EXCEPT !.exc = "InvalidStateException"]
  ELSE [n EXCEPT !.states[id].isAccepting = accepting,
                 !.acceptingStates = IF accepting THEN @ \cup {id} ELSE @ \ {id}]

NFA_addTransition(n, from, to, symbol) ==
  IF n.exc # "" THEN n
  ELSE IF from \notin DOMAIN n.states \/ to \notin DOMAIN n.states
       THEN [n EXCEPT !.exc = "InvalidStateException"]
  ELSE [n EXCEPT !.transitions = Append(@, Transition(from, to, symbol))]

addEpsilonTransition(n, from, to) == NFA_addTransition(n, from, to, EPSILON)

\* addEpsilonTransition for each (from, to) of the sequence pairs, in order.
RECURSIVE addEpsilonTransitions(_, _)
addEpsilonTransitions(n, pairs) ==
  IF pairs = <<>> \/ n.exc # "" THEN n
  ELSE addEpsilonTransitions(addEpsilonTransition(n, pairs[1][1], pairs[1][2]), Tail(pairs))

\* getTransitionsFrom(state, symbol): the matching transitions, in insertion order.
getTransitionsFrom(n, state, symbol) ==
  SelectSeq(n.transitions, LAMBDA t : t.from = state /\ t.symbol = symbol)

\* The inner loop of epsilonClosure(StateId): each target not yet in the
\* closure is inserted and pushed.  cs is <<closure, stack>>.
RECURSIVE closurePush(_, _)
closurePush(cs, ts) ==
  IF ts = <<>> THEN cs
  ELSE IF ts[1].to \in cs[1] THEN closurePush(cs, Tail(ts))
  ELSE closurePush(<<cs[1] \cup {ts[1].to}, Append(cs[2], ts[1].to)>>, Tail(ts))

\* A closure that takes the targets of the epsilon transitions of the
\* states on the stack and goes no further.
closureOneStep(n, closure, stack) ==
  closure \cup {t.to : t \in {n.transitions[i] : i \in {j \in 1..Len(n.transitions) :
                  /\ \E k \in 1..Len(stack) : stack[k] = n.transitions[j].from
                  /\ n.transitions[j].symbol = EPSILON}}}

RECURSIVE closureLoop(_, _, _)
closureLoop(n, closure, stack) ==
  IF stack = <<>> THEN closure
  ELSE LET current == stack[Len(stack)]
           cs == closurePush(<<closure, SubSeq(stack, 1, Len(stack) - 1)>>,
                             getTransitionsFrom(n, current, EPSILON))
       IN  closureLoop(n, cs[1], cs[2])

epsilonClosure1(n, state) == closureLoop(n, {state}, <<state>>)

\* An epsilonClosure of a set that returns the set as it is.
noClosure(n, states) == states

epsilonClosure(n, states) == UNION {epsilonClosure1(n, s) : s \in states}

move(n, states, symbol) ==
  {t.to : t \in {n.transitions[i] : i \in {j \in 1..Len(n.transitions) :
       n.transitions[j].from \in states /\ n.transitions[j].symbol = symbol}}}

RECURSIVE deltaLoop(_, _, _)
deltaLoop(n, current, input) ==
  IF input = <<>> THEN current
  ELSE deltaLoop(n, epsilonClosure(n, move(n, current, input[1])), Tail(input))

extendedDelta(n, states, input) == deltaLoop(n, epsilonClosure(n, states), input)

NFA_accepts(n, input) ==
  IF n.startState < 0 THEN FALSE
  ELSE extendedDelta(n, {n.startState}, input) \cap n.acceptingStates # {}

NFA_getAlphabet(n) ==
  {n.transitions[i].symbol : i \in 1..Len(n.transitions)} \ {EPSILON}

(***************************************************************************)
(* Thompson's construction (nfa.cpp).  A composition takes its operands by *)
(* rvalue reference and renumbers them in place.                           *)
(***************************************************************************)
\* The number of keys of the std::map m below key k.
Rank(m, k) == Cardinality({j \in DOMAIN m : j < k})

\* std::map::operator[] on the mapping of renumberStates: a missing key reads 0.
MapGet(mapping, k) == IF k \in DOMAIN mapping THEN mapping[k] ELSE 0

\* A renumberStates that leaves every id as it is.
notRenumbered(n, offset) == n

renumberStates(n, offset) ==
  LET mapping == [id \in DOMAIN n.states |-> offset + Rank(n.states, id)]
      old(newId) == CHOOSE id \in DOMAIN n.states : mapping[id] = newId
      newStates == [newId \in Range(mapping) |->
                      State(n.states[old(newId)].isAccepting, n.states[old(newId)].isStart)]
      newAccepting == {mapping[id] : id \in {i \in DOMAIN n.states : n.states[i].isAccepting}}
      newTransitions == [i \in 1..Len(n.transitions) |->
                           Transition(MapGet(mapping, n.transitions[i].from),
                                      MapGet(mapping, n.transitions[i].to),
                                      n.transitions[i].symbol)]
  IN  [n EXCEPT !.states = newStates,
                !.transitions = newTransitions,
                !.acceptingStates = newAccepting,
                !.startState = MapGet(mapping, n.startState),
                !.nextStateId = offset + Cardinality(DOMAIN n.states)]

createEmpty ==
  LET n1 == NFA_addState(NewNFA, FALSE)
      n2 == NFA_addState(n1, TRUE)
  IN  addEpsilonTransition(NFA_setStartState(n2, 0), 0, 1)

createSingle(s) ==
  LET n1 == NFA_addState(NewNFA, FALSE)
      n2 == NFA_addState(n1, TRUE)
  IN  NFA_addTransition(NFA_setStartState(n2, 0), 0, 1, s)

\* states_.at(s).setAccepting(false) for each s of ids; at() throws on a missing key.
ClearAccepting(n, ids) ==
  IF n.exc # "" THEN n
  ELSE IF ~(ids \subseteq DOMAIN n.states) THEN [n EXCEPT !.exc = "out_of_range"]
  ELSE [n EXCEPT !.states = [id \in DOMAIN @ |->
                               IF id \in ids THEN [@[id] EXCEPT !.isAccepting = FALSE]
                               ELSE @[id]]]

\* The part that createUnion, createStar and createOptional share: a new
\* start state 0, the states of the operands copied with their flags
\* cleared, their transitions, and a new accepting end state.
Wrap(ops) ==
  LET r0 == NFA_setStartState(NFA_addState(NewNFA, FALSE), 0)
      copy(r, a) == [r EXCEPT !.states = EmplaceAll(@, DOMAIN a.states, State(FALSE, FALSE)),
                              !.transitions = @ \o a.transitions]
      r1 == copy(r0, ops[1])
      r2 == IF Len(ops) = 2 THEN copy(r1, ops[2]) ELSE r1
      newEnd == Cardinality(DOMAIN r2.states)
  IN  [r2 EXCEPT !.states = Emplace(@, newEnd, State(TRUE, FALSE)),
                 !.acceptingStates = @ \cup {newEnd}]

createUnion(a0, b0) ==
  LET a == renumberStates(a0, 1)
      b == renumberStates(b0, 1 + Cardinality(DOMAIN a.states))
      r == Wrap(<<a, b>>)
      newEnd == Cardinality(DOMAIN r.states) - 1
      r1 == addEpsilonTransitions(r, <<<<0, a.startState>>, <<0, b.startState>>>>)
      join(x, acc) ==
        LET ids == SortedIds(acc)
        IN  addEpsilonTransitions(ClearAccepting(x, acc),
                                  [i \in 1..Len(ids) |-> <<ids[i], newEnd>>])
      r2 == join(join(r1, a.acceptingStates), b.acceptingStates)
  IN  IF a0.exc # "" THEN a0 ELSE IF b0.exc # "" THEN b0
      ELSE IF r2.exc # "" THEN r2 ELSE [r2 EXCEPT !.nextStateId = newEnd + 1]

createConcat(a, b0) ==
  LET b == renumberStates(b0, Cardinality(DOMAIN a.states))
      bAcc == {id \in DOMAIN b.states : b.states[id].isAccepting}
      r1 == [a EXCEPT !.states = [id \in DOMAIN @ \cup DOMAIN b.states |->
                                    IF id \in DOMAIN @ THEN @[id]
                                    ELSE State(b.states[id].isAccepting, FALSE)],
                      !.acceptingStates = @ \cup bAcc,
                      !.transitions = @ \o b.transitions]
      ids == SortedIds(r1.acceptingStates \ b.acceptingStates)
      r2 == addEpsilonTransitions(ClearAccepting(r1, r1.acceptingStates \ b.acceptingStates),
                                  [i \in 1..Len(ids) |-> <<ids[i], b.startState>>])
  IN  IF a.exc # "" THEN a ELSE IF b0.exc # "" THEN b0
      ELSE IF r2.exc # "" THEN r2
      ELSE [r2 EXCEPT !.acceptingStates = b.acceptingStates,
                      !.nextStateId = Cardinality(DOMAIN r2.states)]

createStar(a0) ==
  LET a == renumberStates(a0, 1)
      r == Wrap(<<a>>)
      newEnd == Cardinality(DOMAIN r.states) - 1
      ids == SortedIds(a.acceptingStates)
      r1 == addEpsilonTransitions(r,
              <<<<0, a.startState>>, <<0, newEnd>>>> \o
              [i \in 1..2 * Len(ids) |->
                 IF i % 2 = 1 THEN <<ids[(i + 1) \div 2], a.startState>>
                 ELSE <<ids[i \div 2], newEnd>>])
  IN  IF a0.exc # "" THEN a0
      ELSE IF r1.exc # "" THEN r1 ELSE [r1 EXCEPT !.nextStateId = newEnd + 1]

\* A createPlus that forgets the mandatory first copy of the operand.
createPlusStarOnly(a) == createStar(a)

createPlus(a) == createConcat(a, createStar(a))

createOptional(a0) ==
  LET a == renumberStates(a0, 1)
      r == Wrap(<<a>>)
      newEnd == Cardinality(DOMAIN r.states) - 1
      ids == SortedIds(a.acceptingStates)
      r1 == addEpsilonTransitions(r,
              <<<<0, a.startState>>, <<0, newEnd>>>> \o
              [i \in 1..Len(ids) |-> <<ids[i], newEnd>>])
  IN  IF a0.exc # "" THEN a0
      ELSE IF r1.exc # "" THEN r1 ELSE [r1 EXCEPT !.nextStateId = newEnd + 1]

\* An NFA that NFA::NFA(NFA&&) has moved from: the containers are left
\* empty, startState_ and nextStateId_ are copied and stay.
movedFrom(n) ==
  [n EXCEPT !.states = EmptyMap, !.transitions = <<>>, !.acceptingStates = {}]

\* What a composition leaves in the objects it was given: createUnion,
\* createStar and createOptional renumber their operands in place,
\* createConcat renumbers its second operand and moves from its first, and
\* createPlus copies its operand before createConcat moves from it.
leftByUnion(a, b) ==
  <<renumberStates(a, 1),
    renumberStates(b, 1 + Cardinality(DOMAIN a.states))>>

leftByConcat(a, b) == <<movedFrom(a), renumberStates(b, Cardinality(DOMAIN a.states))>>

leftByStar(a) == renumberStates(a, 1)

leftByPlus(a) == movedFrom(a)

leftByOptional(a) == renumberStates(a, 1)

(***************************************************************************)
(* RegexParser (regex_parser.cpp).  A pattern is a sequence of characters  *)
(* and pos_ counts from 0 as in the code.  A parsing function returns      *)
(* [ok, node, pos]: ok is FALSE when it threw a ParseException.            *)
(***************************************************************************)
Node(type, value, charClass, children, minRepeat, maxRepeat) ==
  [type |-> type, value |-> value, charClass |-> charClass, children |-> children,
   minRepeat |-> minRepeat, maxRepeat |-> maxRepeat]

Leaf(type) == Node(type, EPSILON, {}, <<>>, 0, -1)

Unary(type, child) == Node(type, EPSILON, {}, <<child>>, 0, -1)

Binary(type, l, r) == Node(type, EPSILON, {}, <<l, r>>, 0, -1)

Parsed(node, pos) == [ok |-> TRUE, node |-> node, pos |-> pos]

Thrown(pos) == [ok |-> FALSE, node |-> Leaf("EPSILON"), pos |-> pos]

isAtEnd(p, pos) == pos >= Len(p)

peek(p, pos) == IF isAtEnd(p, pos) THEN EPSILON ELSE p[pos + 1]

isMetaChar(c) ==
  c \in {"(", ")", "[", "]", "*", "+", "?", "|", ".", "\\", "^", "$", "{", "}"}

Digits == <<"0", "1", "2", "3", "4", "5", "6", "7", "8", "9">>

isdigit(c) == \E i \in 1..Len(Digits) : Digits[i] = c

DigitValue(c) == (CHOOSE i \in 1..Len(Digits) : Digits[i] = c) - 1

\* parseNumber: [num, pos]; num is -1 when there is no digit at pos.
RECURSIVE numberLoop(_, _, _, _)
numberLoop(p, pos, num, hasDigit) ==
  IF ~isAtEnd(p, pos) /\ isdigit(peek(p, pos))
  THEN numberLoop(p, pos + 1, num * 10 + DigitValue(peek(p, pos)), TRUE)
  ELSE [num |-> IF hasDigit THEN num ELSE -1, pos |-> pos]

parseNumber(p, pos) == numberLoop(p, pos, 0, FALSE)

\* parseCountedQuantifier: [ok, min, max, pos]; on failure pos is startPos again.
parseCountedQuantifier(p, startPos) ==
  LET fail == [ok |-> FALSE, min |-> 0, max |-> 0, pos |-> startPos]
      m == parseNumber(p, startPos + 1)
      n == parseNumber(p, m.pos + 1)
  IN  IF peek(p, startPos) # "{" THEN fail
      ELSE IF m.num < 0 THEN fail
      ELSE IF peek(p, m.pos) = "}"
           THEN [ok |-> TRUE, min |-> m.num, max |-> m.num, pos |-> m.pos + 1]
      ELSE IF peek(p, m.pos) = ","
           THEN IF peek(p, m.pos + 1) = "}"
                THEN [ok |-> TRUE, min |-> m.num, max |-> -1, pos |-> m.pos + 2]
                ELSE IF n.num < 0 \/ peek(p, n.pos) # "}" THEN fail
                ELSE [ok |-> TRUE, min |-> m.num, max |-> n.num, pos |-> n.pos + 1]
      ELSE fail

\* The characters start..end of a range of a character class (none when start > end).
CharRange(start, end) ==
  {Ascii[i] : i \in AsciiIndex(start)..AsciiIndex(end)}

\* The loop of parseCharClass: [chars, pos].
RECURSIVE charClassLoop(_, _, _)
charClassLoop(p, pos, chars) ==
  IF ~isAtEnd(p, pos) /\ peek(p, pos) # "]"
  THEN LET start == p[pos + 1]
       IN  IF peek(p, pos + 1) = "-" /\ pos + 2 < Len(p) /\ p[pos + 3] # "]"
           THEN charClassLoop(p, pos + 3, chars \cup CharRange(start, p[pos + 3]))
           ELSE charClassLoop(p, pos + 1, chars \cup {start})
  ELSE [chars |-> chars, pos |-> pos]

parseCharClass(p, pos) ==
  LET negate == peek(p, pos) = "^"
      r == charClassLoop(p, IF negate THEN pos + 1 ELSE pos, {})
  IN  IF negate THEN [chars |-> Range(Ascii) \ r.chars, pos |-> r.pos] ELSE r

\* The '[' case of parseAtom after parseCharClass.
parseClassWith(p, cls) ==
  IF peek(p, cls.pos) # "]" THEN Thrown(cls.pos)
  ELSE Parsed(Node("CHAR_CLASS", EPSILON, cls.chars, <<>>, 0, -1), cls.pos + 1)

\* Each parse function is split where it receives the result of a call: the
\* operator named after the function makes the call, and the one named
\* ...With continues with the result (a thrown exception propagates).
RECURSIVE parseUnion(_, _), parseUnionWith(_, _), unionLoop(_, _, _), unionLoopWith(_, _, _),
          parseConcat(_, _), concatLoop(_, _, _), concatLoopWith(_, _, _),
          parseRepeat(_, _), parseRepeatWith(_, _), repeatLoop(_, _, _),
          repeatLoopWith(_, _, _, _), parseAtom(_, _), parseGroupWith(_, _)

parseUnion(p, pos) == parseUnionWith(p, parseConcat(p, pos))

parseUnionWith(p, left) ==
  IF left.ok THEN unionLoop(p, left.node, left.pos) ELSE left

unionLoop(p, left, pos) ==
  IF peek(p, pos) = "|" THEN unionLoopWith(p, left, parseConcat(p, pos + 1))
  ELSE Parsed(left, pos)

unionLoopWith(p, left, right) ==
  IF right.ok THEN unionLoop(p, Binary("UNION", left, right.node), right.pos)
  ELSE right

\* parts[1] . parts[2] . ... nested to the left.
RECURSIVE concatOf(_)
concatOf(parts) ==
  IF Len(parts) = 1 THEN parts[1]
  ELSE Binary("CONCAT", concatOf(SubSeq(parts, 1, Len(parts) - 1)), parts[Len(parts)])

parseConcat(p, pos) == concatLoop(p, pos, <<>>)

concatLoop(p, pos, parts) ==
  IF ~isAtEnd(p, pos) /\ peek(p, pos) # "|" /\ peek(p, pos) # ")"
  THEN concatLoopWith(p, parts, parseRepeat(p, pos))
  ELSE IF parts = <<>> THEN Parsed(Leaf("EPSILON"), pos)
  ELSE Parsed(concatOf(parts), pos)

concatLoopWith(p, parts, r) ==
  IF r.ok THEN concatLoop(p, r.pos, Append(parts, r.node)) ELSE r

parseRepeat(p, pos) == parseRepeatWith(p, parseAtom(p, pos))

parseRepeatWith(p, base) ==
  IF base.ok THEN repeatLoop(p, base.node, base.pos) ELSE base

repeatLoop(p, base, pos) ==
  IF isAtEnd(p, pos) THEN Parsed(base, pos)
  ELSE repeatLoopWith(p, base, pos, parseCountedQuantifier(p, pos))

repeatLoopWith(p, base, pos, q) ==
  IF peek(p, pos) = "*" THEN repeatLoop(p, Unary("STAR", base), pos + 1)
  ELSE IF peek(p, pos) = "+" THEN repeatLoop(p, Unary("PLUS", base), pos + 1)
  ELSE IF peek(p, pos) = "?" THEN repeatLoop(p, Unary("OPTIONAL", base), pos + 1)
  ELSE IF peek(p, pos) = "{" /\ q.ok
       THEN repeatLoop(p, Node("REPEAT_N", EPSILON, {}, <<base>>, q.min, q.max), q.pos)
  ELSE Parsed(base, pos)

parseAtom(p, pos) ==
  IF isAtEnd(p, pos) THEN Thrown(pos)
  ELSE IF peek(p, pos) = "(" THEN parseGroupWith(p, parseUnion(p, pos + 1))
  ELSE IF peek(p, pos) = "[" THEN parseClassWith(p, parseCharClass(p, pos + 1))
  ELSE IF peek(p, pos) = "." THEN Parsed(Leaf("ANY"), pos + 1)
  ELSE IF peek(p, pos) = "^" THEN Parsed(Leaf("START_ANCHOR"), pos + 1)
  ELSE IF peek(p, pos) = "$" THEN Parsed(Leaf("END_ANCHOR"), pos + 1)
  ELSE IF peek(p, pos) = "\\"
       THEN IF isAtEnd(p, pos + 1) THEN Thrown(pos + 1)
            ELSE Parsed(Node("CHAR", p[pos + 2], {}, <<>>, 0, -1), pos + 2)
  ELSE IF isMetaChar(peek(p, pos)) THEN Thrown(pos)
  ELSE Parsed(Node("CHAR", peek(p, pos), {}, <<>>, 0, -1), pos + 1)

\* parseGroupWith without the check for the closing parenthesis.
parseGroupWithLenient(p, inner) ==
  IF ~inner.ok THEN inner
  ELSE Parsed(Unary("GROUP", inner.node),
              IF peek(p, inner.pos) = ")" THEN inner.pos + 1 ELSE inner.pos)

\* The '(' case of parseAtom after the inner parseUnion.
parseGroupWith(p, inner) ==
  IF ~inner.ok THEN inner
  ELSE IF peek(p, inner.pos) # ")" THEN Thrown(inner.pos)
  ELSE Parsed(Unary("GROUP", inner.node), inner.pos + 1)

\* result = createUnion(result, createSingle(c)) for each c of cs, in order.
RECURSIVE unionWithSingles(_, _)
unionWithSingles(result, cs) ==
  IF cs = <<>> \/ result.exc # "" THEN result
  ELSE unionWithSingles(createUnion(result, createSingle(cs[1])), Tail(cs))

\* concatTimes with a loop that stops one copy short.
RECURSIVE concatTimesOneShort(_, _, _)
concatTimesOneShort(result, x, k) ==
  IF k <= 1 THEN result ELSE concatTimesOneShort(createConcat(result, x), x, k - 1)

\* result = createConcat(result, x) k times.
RECURSIVE concatTimes(_, _, _)
concatTimes(result, x, k) ==
  IF k <= 0 THEN result ELSE concatTimes(createConcat(result, x), x, k - 1)

\* The AST of a parser that has parsed nothing yet: a null shared_ptr.
NullAST == Leaf("NULL")

RECURSIVE buildNFA(_)
buildNFA(node) ==
  CASE node.type = "NULL" -> createEmpty
    [] node.type = "EPSILON" -> createEmpty
    [] node.type = "CHAR" -> createSingle(node.value)
    [] node.type = "ANY" -> unionWithSingles(createSingle(Ascii[1]), Tail(Ascii))
    [] node.type = "CHAR_CLASS" ->
         IF node.charClass = {} THEN createEmpty
         ELSE LET cs == SortedSymbols(node.charClass)
              IN  unionWithSingles(createSingle(cs[1]), Tail(cs))
    [] node.type = "UNION" ->
         createUnion(buildNFA(node.children[1]), buildNFA(node.children[2]))
    [] node.type = "CONCAT" ->
         createConcat(buildNFA(node.children[1]), buildNFA(node.children[2]))
    [] node.type = "STAR" -> createStar(buildNFA(node.children[1]))
    [] node.type = "PLUS" -> createPlus(buildNFA(node.children[1]))
    [] node.type = "OPTIONAL" -> createOptional(buildNFA(node.children[1]))
    [] node.type = "GROUP" -> buildNFA(node.children[1])
    [] node.type = "START_ANCHOR" -> createEmpty
    [] node.type = "END_ANCHOR" -> createEmpty
    [] node.type = "REPEAT_N" ->
         IF node.minRepeat = 0 /\ node.maxRepeat = 0 THEN createEmpty
         ELSE LET child == buildNFA(node.children[1])
                  required == concatTimes(createEmpty, child, node.minRepeat)
              IN  IF node.maxRepeat = -1
                  THEN createConcat(required, createStar(child))
                  ELSE concatTimes(required, createOptional(child),
                                   node.maxRepeat - node.minRepeat)

\* RegexParser::parse: [ok, nfa, ast, pos]; ast and pos are the members ast_
\* and pos_ after the call, prev being ast_ before it.
parseWith(pattern, prev, u) ==
  IF ~u.ok THEN [ok |-> FALSE, nfa |-> NewNFA, ast |-> prev, pos |-> u.pos]
  ELSE IF ~isAtEnd(pattern, u.pos)
       THEN [ok |-> FALSE, nfa |-> NewNFA, ast |-> u.node, pos |-> u.pos]
  ELSE [ok |-> TRUE, nfa |-> buildNFA(u.node), ast |-> u.node, pos |-> u.pos]

parse(pattern, prev) ==
  IF pattern = <<>> THEN [ok |-> TRUE, nfa |-> createEmpty, ast |-> prev, pos |-> 0]
  ELSE parseWith(pattern, prev, parseUnion(pattern, 0))

(***************************************************************************)
(* DFA (dfa.cpp).  An std::optional<StateId> is a sequence of length 0     *)
(* (std::nullopt) or 1.                                                    *)
(***************************************************************************)
NewDFA ==
  [states |-> EmptyMap, transitions |-> <<>>, transitionTable |-> EmptyMap,
   startState |-> -1, acceptingStates |-> {}, nextStateId |-> 0, alphabet |-> {},
   exc |-> ""]

DFA_addState(d, isAccepting) ==
  LET id == d.nextStateId
      st == Emplace(d.states, id, State(isAccepting, DOMAIN d.states = {}))
  IN  [d EXCEPT !.nextStateId = id + 1,
                !.states = st,
                !.startState = IF Cardinality(DOMAIN st) = 1 THEN id ELSE @,
                !.acceptingStates = IF isAccepting THEN @ \cup {id} ELSE @]

DFA_setStartState(d, id) ==
  IF d.exc # "" THEN d
  ELSE IF id \notin DOMAIN d.states THEN [d EXCEPT !.exc = "InvalidStateException"]
  ELSE LET s1 == IF d.startState >= 0 /\ d.startState \in DOMAIN d.states
                 THEN [d.states EXCEPT ![d.startState].isStart = FALSE]
                 ELSE d.states
       IN  [d EXCEPT !.startState = id, !.states = [s1 EXCEPT ![id].isStart = TRUE]]

DFA_setAcceptingState(d, id, accepting) ==
  IF d.exc # "" THEN d
  ELSE IF id \notin DOMAIN d.states THEN [d EXCEPT !.exc = "InvalidStateException"]
  ELSE [d EXCEPT !.states[id].isAccepting = accepting,
                 !.acceptingStates = IF accepting THEN @ \cup {id} ELSE @ \ {id}]

\* addTransition without the check for a transition already in the table.
DFA_addTransitionOverwrite(d, from, to, symbol) ==
  IF d.exc # "" THEN d
  ELSE IF from \notin DOMAIN d.states \/ to \notin DOMAIN d.states
       THEN [d EXCEPT !.exc = "InvalidStateException"]
  ELSE [d EXCEPT !.transitions = Append(@, Transition(from, to, symbol)),
                 !.transitionTable = [k \in DOMAIN @ \cup {<<from, symbol>>} |->
                                        IF k = <<from, symbol>> THEN to ELSE @[k]],
                 !.alphabet = @ \cup {symbol}]

DFA_addTransition(d, from, to, symbol) ==
  IF d.exc # "" THEN d
  ELSE IF from \notin DOMAIN d.states \/ to \notin DOMAIN d.states
       THEN [d EXCEPT !.exc = "InvalidStateException"]
  ELSE IF <<from, symbol>> \in DOMAIN d.transitionTable
       THEN [d EXCEPT !.exc = "AutomataException"]
  ELSE [d EXCEPT !.transitions = Append(@, Transition(from, to, symbol)),
                 !.transitionTable = [k \in DOMAIN @ \cup {<<from, symbol>>} |->
                                        IF k = <<from, symbol>> THEN to ELSE @[k]],
                 !.alphabet = @ \cup {symbol}]

getNextState(d, from, symbol) ==
  IF <<from, symbol>> \in DOMAIN d.transitionTable
  THEN <<d.transitionTable[<<from, symbol>>]>>
  ELSE <<>>

\* The loop of DFA::accepts from state current.
RECURSIVE walk(_, _, _)
walk(d, current, input) ==
  IF input = <<>> THEN current \in d.acceptingStates
  ELSE LET next == getNextState(d, current, input[1])
       IN  IF next = <<>> THEN FALSE ELSE walk(d, next[1], Tail(input))

DFA_accepts(d, input) ==
  IF d.startState < 0 THEN FALSE ELSE walk(d, d.startState, input)

\* The inner loop of findAllMatches: j runs from its value to the end of text
\* (indices from 0 as in the code).
RECURSIVE matchesFrom(_, _, _, _, _, _)
matchesFrom(d, text, i, j, current, matches) ==
  IF j >= Len(text) THEN matches
  ELSE LET next == getNextState(d, current, text[j + 1])
       IN  IF next = <<>> THEN matches
           ELSE matchesFrom(d, text, i, j + 1, next[1],
                            IF next[1] \in d.acceptingStates
                            THEN Append(matches, <<i, j + 1>>) ELSE matches)

\* The outer loop of findAllMatches.
RECURSIVE matchesLoop(_, _, _, _)
matchesLoop(d, text, i, matches) ==
  IF i >= Len(text) THEN matches
  ELSE LET m0 == IF d.startState \in d.acceptingStates
                 THEN Append(matches, <<i, i>>) ELSE matches
       IN  matchesLoop(d, text, i + 1, matchesFrom(d, text, i, i, d.startState, m0))

\* A findAllMatches whose outer loop starts at index 1.
findAllMatchesFromOne(d, text) == matchesLoop(d, text, 1, <<>>)

\* A findAllMatches that lists the latest match first.
RECURSIVE Reverse(_)
Reverse(q) == IF q = <<>> THEN <<>> ELSE Append(Reverse(Tail(q)), q[1])

findAllMatchesLatestFirst(d, text) == Reverse(matchesLoop(d, text, 0, <<>>))

findAllMatches(d, text) == matchesLoop(d, text, 0, <<>>)

\* A subset that counts as accepting only when all its NFA states accept.
allAccepting(nfa, S) == S \subseteq nfa.acceptingStates

\* A subset that counts as accepting when it holds no state known to reject.
noRejecting(nfa, S) ==
  S \cap {id \in DOMAIN nfa.states : ~nfa.states[id].isAccepting} = {}

\* Whether a set of NFA states holds an accepting one.
anyAccepting(nfa, S) == S \cap nfa.acceptingStates # {}

\* std::map with keys of any kind: the value of key k, k present.
MapPut(m, k, v) == [x \in DOMAIN m \cup {k} |-> IF x = k THEN v ELSE m[x]]

\* The loop over the alphabet of fromNFA for the subset current.
\* st is [dfa, stateMap, workList].
RECURSIVE subsetSymbols(_, _, _, _)
subsetSymbols(nfa, current, syms, st) ==
  IF syms = <<>> \/ st.dfa.exc # "" THEN st
  ELSE LET symbol == syms[1]
           next == epsilonClosure(nfa, move(nfa, current, symbol))
           isNew == next \notin DOMAIN st.stateMap
           st1 == IF isNew
                  THEN [dfa |-> DFA_addState(st.dfa, anyAccepting(nfa, next)),
                        stateMap |-> MapPut(st.stateMap, next, st.dfa.nextStateId),
                        workList |-> Append(st.workList, next)]
                  ELSE st
       IN  IF next = {} THEN subsetSymbols(nfa, current, Tail(syms), st)
           ELSE subsetSymbols(nfa, current, Tail(syms),
                  [st1 EXCEPT !.dfa = DFA_addTransition(@, st.stateMap[current],
                                                       st1.stateMap[next], symbol)])

\* The worklist loop of fromNFA.
RECURSIVE subsetLoop(_, _, _)
subsetLoop(nfa, alphabet, st) ==
  IF st.workList = <<>> \/ st.dfa.exc # "" THEN st
  ELSE subsetLoop(nfa, alphabet,
         subsetSymbols(nfa, st.workList[1], alphabet,
                       [st EXCEPT !.workList = Tail(@)]))

\* fromNFA up to its return statement: dfa, stateMap and the empty workList.
subsetConstruction(nfa) ==
  LET initial == epsilonClosure1(nfa, nfa.startState)
      d0 == DFA_setStartState(DFA_addState(NewDFA, anyAccepting(nfa, initial)), 0)
  IN  subsetLoop(nfa, SortedSymbols(NFA_getAlphabet(nfa)),
                 [dfa |-> d0, stateMap |-> MapPut(EmptyMap, initial, 0),
                  workList |-> <<initial>>])

fromNFA(nfa) == subsetConstruction(nfa).dfa

\* The first occurrence of Y removed from the vector W (std::find, erase).
RemoveFirst(W, Y) ==
  LET i == CHOOSE k \in 1..Len(W) : W[k] = Y /\ \A j \in 1..(k - 1) : W[j] # Y
  IN  SubSeq(W, 1, i - 1) \o SubSeq(W, i + 1, Len(W))

InSeq(W, Y) == \E k \in 1..Len(W) : W[k] = Y

\* The loop of minimize over the classes Y of the partition P, from the i-th:
\* a class that X cuts is split, and the worklist W follows it.
RECURSIVE splitLoop(_, _, _, _, _)
splitLoop(X, P, i, newPartition, W) ==
  IF i > Len(P) THEN [partition |-> newPartition, workList |-> W]
  ELSE LET Y == P[i]
           intersect == Y \cap X
           difference == Y \ X
       IN  IF intersect # {} /\ difference # {}
           THEN splitLoop(X, P, i + 1, newPartition \o <<intersect, difference>>,
                  IF InSeq(W, Y)
                  THEN RemoveFirst(W, Y) \o <<intersect, difference>>
                  ELSE Append(W, IF Cardinality(intersect) <= Cardinality(difference)
                                 THEN intersect ELSE difference))
           ELSE splitLoop(X, P, i + 1, Append(newPartition, Y), W)

\* The loop of minimize over the symbols, for the splitter A.
RECURSIVE refineSymbols(_, _, _, _, _)
refineSymbols(d, A, syms, P, W) ==
  IF syms = <<>> THEN [partition |-> P, workList |-> W]
  ELSE LET X == {id \in DOMAIN d.states :
                   LET next == getNextState(d, id, syms[1])
                   IN  next # <<>> /\ next[1] \in A}
           r == splitLoop(X, P, 1, <<>>, W)
       IN  refineSymbols(d, A, Tail(syms), r.partition, r.workList)

\* The worklist loop of minimize: the final partition.
RECURSIVE refineLoop(_, _, _)
refineLoop(d, P, W) ==
  IF W = <<>> THEN P
  ELSE LET r == refineSymbols(d, W[Len(W)], SortedSymbols(d.alphabet),
                              P, SubSeq(W, 1, Len(W) - 1))
       IN  refineLoop(d, r.partition, r.workList)

\* The classes minimize starts from: the accepting states, then the others.
initialPartition(d) ==
  LET accepting == {id \in DOMAIN d.states : d.states[id].isAccepting}
      nonAccepting == DOMAIN d.states \ accepting
  IN  (IF accepting # {} THEN <<accepting>> ELSE <<>>) \o
      (IF nonAccepting # {} THEN <<nonAccepting>> ELSE <<>>)

\* stateToPartition of minimize: the index, from 0, of the last class holding s.
stateToPartition(P) ==
  [s \in UNION Range(P) |->
     (CHOOSE i \in 1..Len(P) : s \in P[i] /\ \A j \in (i + 1)..Len(P) : s \notin P[j]) - 1]

\* minDfa.addState for each class of P from the i-th.
RECURSIVE addClasses(_, _, _, _)
addClasses(d, P, i, minDfa) ==
  IF i > Len(P) THEN minDfa
  ELSE addClasses(d, P, i + 1, DFA_addState(minDfa, P[i] \cap d.acceptingStates # {}))

\* A lifting that adds every transition, whether its key was lifted or not.
RECURSIVE liftTransitionsNoDedup(_, _, _, _, _)
liftTransitionsNoDedup(d, s2p, i, added, minDfa) ==
  IF i > Len(d.transitions) \/ minDfa.exc # "" THEN minDfa
  ELSE liftTransitionsNoDedup(d, s2p, i + 1, added,
         DFA_addTransition(minDfa, MapGet(s2p, d.transitions[i].from),
                           MapGet(s2p, d.transitions[i].to), d.transitions[i].symbol))

\* The transitions of d lifted to the classes, from the i-th; added is the
\* set of (from, to, symbol) keys already lifted.
RECURSIVE liftTransitions(_, _, _, _, _)
liftTransitions(d, s2p, i, added, minDfa) ==
  IF i > Len(d.transitions) \/ minDfa.exc # "" THEN minDfa
  ELSE LET t == d.transitions[i]
           key == <<MapGet(s2p, t.from), MapGet(s2p, t.to), t.symbol>>
       IN  IF key \in added THEN liftTransitions(d, s2p, i + 1, added, minDfa)
           ELSE liftTransitions(d, s2p, i + 1, added \cup {key},
                                DFA_addTransition(minDfa, key[1], key[2], key[3]))

\* A quotient that leaves the start state where addState put it: on the
\* first class.
quotientStartFirst(d, P) ==
  liftTransitions(d, stateToPartition(P), 1, {}, addClasses(d, P, 1, NewDFA))

\* The quotient automaton that minimize builds from the partition P.
quotient(d, P) ==
  LET s2p == stateToPartition(P)
      m1 == DFA_setStartState(addClasses(d, P, 1, NewDFA), MapGet(s2p, d.startState))
  IN  liftTransitions(d, s2p, 1, {}, m1)

minimize(d) ==
  IF DOMAIN d.states = {} THEN d
  ELSE quotient(d, refineLoop(d, initialPartition(d), initialPartition(d)))

\* A complement that keeps the accepting set of d and adds the other states.
complementNoClear(d) ==
  [d EXCEPT !.acceptingStates = DOMAIN d.states,
            !.states = [id \in DOMAIN @ |-> [@[id] EXCEPT !.isAccepting = TRUE]]]

complement(d) ==
  [d EXCEPT !.acceptingStates = DOMAIN d.states \ d.acceptingStates,
            !.states = [id \in DOMAIN @ |->
                          [@[id] EXCEPT !.isAccepting = id \notin d.acceptingStates]]]

\* The loop over the alphabet of DFA::intersection for the pair current.
\* st is [dfa, stateMap, workList].
RECURSIVE intersectionSymbols(_, _, _, _, _)
intersectionSymbols(a, b, current, syms, st) ==
  IF syms = <<>> \/ st.dfa.exc # "" THEN st
  ELSE LET c == syms[1]
           nextA == getNextState(a, current[1], c)
           nextB == getNextState(b, current[2], c)
           next == <<nextA[1], nextB[1]>>
           isAcc == nextA[1] \in a.acceptingStates /\ nextB[1] \in b.acceptingStates
           st1 == IF next \notin DOMAIN st.stateMap
                  THEN [dfa |-> DFA_addState(st.dfa, isAcc),
                        stateMap |-> MapPut(st.stateMap, next, st.dfa.nextStateId),
                        workList |-> Append(st.workList, next)]
                  ELSE st
       IN  IF nextA = <<>> \/ nextB = <<>>
           THEN intersectionSymbols(a, b, current, Tail(syms), st)
           ELSE intersectionSymbols(a, b, current, Tail(syms),
                  [st1 EXCEPT !.dfa = DFA_addTransition(@, st.stateMap[current],
                                                       st1.stateMap[next], c)])

RECURSIVE intersectionLoop(_, _, _, _)
intersectionLoop(a, b, alphabet, st) ==
  IF st.workList = <<>> \/ st.dfa.exc # "" THEN st
  ELSE intersectionLoop(a, b, alphabet,
         intersectionSymbols(a, b, st.workList[1], alphabet,
                             [st EXCEPT !.workList = Tail(@)]))

\* An intersection whose start pair accepts when either start state does.
intersectionStartEither(a, b) ==
  LET initial == <<a.startState, b.startState>>
      isAcc == a.startState \in a.acceptingStates \/ b.startState \in b.acceptingStates
      d0 == DFA_setStartState(DFA_addState(NewDFA, isAcc), 0)
  IN  intersectionLoop(a, b, SortedSymbols(a.alphabet \cup b.alphabet),
                       [dfa |-> d0, stateMap |-> MapPut(EmptyMap, initial, 0),
                        workList |-> <<initial>>]).dfa

intersection(a, b) ==
  LET initial == <<a.startState, b.startState>>
      isAcc == a.startState \in a.acceptingStates /\ b.startState \in b.acceptingStates
      d0 == DFA_setStartState(DFA_addState(NewDFA, isAcc), 0)
  IN  intersectionLoop(a, b, SortedSymbols(a.alphabet \cup b.alphabet),
                       [dfa |-> d0, stateMap |-> MapPut(EmptyMap, initial, 0),
                        workList |-> <<initial>>]).dfa

\* A value_or that yields state 0 for the missing component.
valueOrZero(opt, dflt) == IF opt = <<>> THEN 0 ELSE opt[1]

\* std::optional::value_or(-1).
valueOr(opt, dflt) == IF opt = <<>> THEN dflt ELSE opt[1]

\* The loop over the alphabet of DFA::unionDFA for the pair current.
RECURSIVE unionSymbols(_, _, _, _, _)
unionSymbols(a, b, current, syms, st) ==
  IF syms = <<>> \/ st.dfa.exc # "" THEN st
  ELSE LET c == syms[1]
           nextA == getNextState(a, current[1], c)
           nextB == getNextState(b, current[2], c)
           na == valueOr(nextA, -1)
           nb == valueOr(nextB, -1)
           next == <<na, nb>>
           isAcc == (nextA # <<>> /\ nextA[1] \in a.acceptingStates)
                    \/ (nextB # <<>> /\ nextB[1] \in b.acceptingStates)
           st1 == IF next \notin DOMAIN st.stateMap
                  THEN [dfa |-> DFA_addState(st.dfa, isAcc),
                        stateMap |-> MapPut(st.stateMap, next, st.dfa.nextStateId),
                        workList |-> Append(st.workList, next)]
                  ELSE st
       IN  IF na = -1 /\ nb = -1
           THEN unionSymbols(a, b, current, Tail(syms), st)
           ELSE unionSymbols(a, b, current, Tail(syms),
                  [st1 EXCEPT !.dfa = DFA_addTransition(@, st.stateMap[current],
                                                       st1.stateMap[next], c)])

RECURSIVE unionDFALoop(_, _, _, _)
unionDFALoop(a, b, alphabet, st) ==
  IF st.workList = <<>> \/ st.dfa.exc # "" THEN st
  ELSE unionDFALoop(a, b, alphabet,
         unionSymbols(a, b, st.workList[1], alphabet,
                      [st EXCEPT !.workList = Tail(@)]))

\* The locals of unionDFA when its loop ends: [dfa, stateMap, workList].
unionDFARun(a, b) ==
  LET initial == <<a.startState, b.startState>>
      isAcc == a.startState \in a.acceptingStates \/ b.startState \in b.acceptingStates
      d0 == DFA_setStartState(DFA_addState(NewDFA, isAcc), 0)
  IN  unionDFALoop(a, b, SortedSymbols(a.alphabet \cup b.alphabet),
                 [dfa |-> d0, stateMap |-> MapPut(EmptyMap, initial, 0),
                  workList |-> <<initial>>])

unionDFA(a, b) == unionDFARun(a, b).dfa

(***************************************************************************)
(* Bounds of the model and the inputs drawn within them.                   *)
(***************************************************************************)
MaxPatLen == 3

MaxWordLen == 3

MaxDfaStates == 2

MaxNfaStates == 2

Seqs(S, n) == UNION {[1..k -> S] : k \in 0..n}

\* The characters of the enumerated patterns: literals, groups, '|', '*', '+', '?'.
PatChars == {"a", "b", "(", ")", "|", "*", "+", "?"}

Pat_S1 == <<"a", "(", "b", "|", "c", ")", "*", "d">>

Pat_S3 == <<"(", "a", "|", "b", ")", "*", "a", "b", "b">>

Str_abb == <<"a", "b", "b">>

\* The patterns of the scenarios S1, S3 and S6 of the specification, patterns
\* that nest the operators deeper than MaxPatLen allows, and patterns with a
\* counted quantifier, a character class and anchors.
NamedPatterns ==
  { Pat_S1, Pat_S3,
    <<"(", "a", "b", ")", "+">>,
    <<"(", "a", "|", "b", ")", "+", "c", "?">>,
    <<"(", "a", "*", "b", ")", "*">>,
    <<"(", "a", "?", "b", "+", ")", "?", "a">>,
    <<"(", "(", "a", "|", "b", ")", "(", "c", "|", "a", ")", ")", "*">>,
    <<"a", "{", "2", "}">>, <<"a", "{", "1", ",", "2", "}", "b">>,
    <<"[", "a", "-", "c", "]", "+">>, <<"^", "a", "b", "$">> }

Patterns == Seqs(PatChars, MaxPatLen) \cup NamedPatterns

InputSymbols == {"a", "b", "c"}

NamedWords ==
  { <<"a", "b", "c", "b", "d">>, <<"a", "d">>, <<"a", "b", "b">>,
    <<"a", "a", "b", "b">>, <<"b", "a", "b", "b">>, <<"a", "b", "a", "b">> }

Words == Seqs(InputSymbols, MaxWordLen) \cup NamedWords

\* The symbols of the enumerated DFAs and NFAs.
Sigma == {"a", "b"}

\* The DFA that the builder calls make of n states, the accepting ones acc,
\* the start state start and the transitions delta (-1: no transition).
RECURSIVE addStates(_, _, _, _)
addStates(d, n, acc, i) ==
  IF i >= n THEN d ELSE addStates(DFA_addState(d, i \in acc), n, acc, i + 1)

RECURSIVE addTransitionsOf(_, _, _)
addTransitionsOf(d, delta, keys) ==
  IF keys = <<>> THEN d
  ELSE addTransitionsOf(
         IF delta[keys[1]] >= 0
         THEN DFA_addTransition(d, keys[1][1], delta[keys[1]], keys[1][2]) ELSE d,
         delta, Tail(keys))

\* The pairs (state, symbol), by state and then by symbol.
Keys(n, syms) ==
  [i \in 1..(n * Len(syms)) |-> <<(i - 1) \div Len(syms), syms[((i - 1) % Len(syms)) + 1]>>]

MakeDFA(n, acc, start, delta) ==
  LET d0 == addStates(NewDFA, n, acc, 0)
      d1 == IF n > 0 THEN DFA_setStartState(d0, start) ELSE d0
  IN  addTransitionsOf(d1, delta, Keys(n, SortedSymbols({k[2] : k \in DOMAIN delta})))

\* The DFAs of n states over the symbols syms.
DFAsOver(syms, n) ==
  {MakeDFA(n, acc, start, delta) :
     acc \in SUBSET (0..(n - 1)), start \in (IF n = 0 THEN {0} ELSE 0..(n - 1)),
     delta \in [(0..(n - 1)) \X syms -> -1..(n - 1)]}

DFAsOfSize(n) == DFAsOver(Sigma, n)

\* The DFA that subset construction yields for (a|b)*abb, built by hand:
\* five states, of which states 0 and 2 accept the same strings.
DFA_S3 ==
  MakeDFA(5, {4}, 0,
          [k \in (0..4) \X Sigma |->
             IF k[2] = "a" THEN 1
             ELSE CASE k[1] = 1 -> 3 [] k[1] = 3 -> 4 [] OTHER -> 2])

\* A DFA of four states that minimize numbers differently when it runs on
\* its own result: 1 -a-> 0 -a-> 2, state 3 apart, no accepting state.
DFA_Chain ==
  MakeDFA(4, {}, 0,
          [k \in (0..3) \X Sigma |->
             CASE k = <<0, "a">> -> 2 [] k = <<1, "a">> -> 0 [] OTHER -> -1])

\* The DFAs of at most max states, and the two above.
DFAInputs(max) == UNION {DFAsOfSize(n) : n \in 0..max} \cup {DFA_S3, DFA_Chain}

\* The second operands of the product operations: DFAs over another alphabet.
MaxOtherStates == 1

OtherSigma == {"b", "c"}

OtherInputs(max) == UNION {DFAsOver(OtherSigma, n) : n \in 0..max}

\* The operands of scenario S6: the DFAs of a*b and ab*.
Pat_S6a == <<"a", "*", "b">>

Pat_S6b == <<"a", "b", "*">>

\* The pairs of a DFA of at most max states and one of at most maxOther
\* states over the other alphabet, in both orders, and the pair of S6.
PairInputs(max, maxOther) ==
  (DFAInputs(max) \X OtherInputs(maxOther)) \cup (OtherInputs(maxOther) \X DFAInputs(max))
    \cup {<<fromNFA(parse(Pat_S6a, NullAST).nfa), fromNFA(parse(Pat_S6b, NullAST).nfa)>>}

\* The NFA that the builder calls make of n states, the accepting ones acc,
\* the start state start and the transitions ts, a sequence of
\* <<from, to, symbol>>.
RECURSIVE addNfaStates(_, _, _, _)
addNfaStates(m, n, acc, i) ==
  IF i >= n THEN m ELSE addNfaStates(NFA_addState(m, i \in acc), n, acc, i + 1)

RECURSIVE addNfaTransitions(_, _)
addNfaTransitions(m, ts) ==
  IF ts = <<>> THEN m
  ELSE addNfaTransitions(NFA_addTransition(m, ts[1][1], ts[1][2], ts[1][3]), Tail(ts))

MakeNFA(n, acc, start, ts) ==
  addNfaTransitions(NFA_setStartState(addNfaStates(NewNFA, n, acc, 0), start), ts)

\* The symbols of the enumerated NFAs.
NfaSigma == {"a", EPSILON}

\* The value of the char: 0 for EPSILON.
SymbolRank(c) == IF c = EPSILON THEN 0 ELSE AsciiIndex(c)

\* The elements of a set of transitions, by from, then to, then symbol.
RECURSIVE SortedTransitions(_)
SortedTransitions(T) ==
  IF T = {} THEN <<>>
  ELSE LET t == CHOOSE x \in T :
                  \A y \in T : \/ x[1] < y[1]
                                \/ (x[1] = y[1] /\ x[2] < y[2])
                                \/ (x[1] = y[1] /\ x[2] = y[2]
                                    /\ SymbolRank(x[3]) <= SymbolRank(y[3]))
       IN  <<t>> \o SortedTransitions(T \ {t})

NFAsOfSize(n) ==
  {MakeNFA(n, acc, start, SortedTransitions(T)) :
     acc \in SUBSET (0..(n - 1)), start \in 0..(n - 1),
     T \in SUBSET ((0..(n - 1)) \X (0..(n - 1)) \X NfaSigma)}

NFAInputs(max) == UNION {NFAsOfSize(n) : n \in 1..max}

(***************************************************************************)
(* PDA (pda.cpp).  A std::string of stack symbols or of input is a         *)
(* sequence of one-character strings; the stack has its bottom at index 1  *)
(* and its top at the end, as Configuration::stack has.                    *)
(***************************************************************************)
STACK_EMPTY == "$"

PDATransition(from, to, inputSymbol, popSymbol, pushSymbols) ==
  [from |-> from, to |-> to, inputSymbol |-> inputSymbol,
   popSymbol |-> popSymbol, pushSymbols |-> pushSymbols]

NewPDA ==
  [states |-> EmptyMap, transitions |-> <<>>, startState |-> -1,
   acceptingStates |-> {}, nextStateId |-> 0,
   initialStackSymbol |-> STACK_EMPTY, exc |-> ""]

PDA_addState(p, isAccepting) ==
  LET id == p.nextStateId
      st == Emplace(p.states, id, State(isAccepting, DOMAIN p.states = {}))
  IN  [p EXCEPT !.nextStateId = id + 1,
                !.states = st,
                !.startState = IF Cardinality(DOMAIN st) = 1 THEN id ELSE @,
                !.acceptingStates = IF isAccepting THEN @ \cup {id} ELSE @]

PDA_setStartState(p, id) ==
  IF p.exc # "" THEN p
  ELSE IF id \notin DOMAIN p.states THEN [p EXCEPT !.exc = "InvalidStateException"]
  ELSE [p EXCEPT !.startState = id, !.states[id].isStart = TRUE]

PDA_setAcceptingState(p, id, accepting) ==
  IF p.exc # "" THEN p
  ELSE IF id \notin DOMAIN p.states THEN [p EXCEPT !.exc = "InvalidStateException"]
  ELSE [p EXCEPT !.states[id].isAccepting = accepting,
                 !.acceptingStates = IF accepting THEN @ \cup {id} ELSE @ \ {id}]

setInitialStackSymbol(p, symbol) == [p EXCEPT !.initialStackSymbol = symbol]

\* No check of from and to: the transition is appended as given.
PDA_addTransition(p, from, to, inputSymbol, popSymbol, pushSymbols) ==
  IF p.exc # "" THEN p
  ELSE [p EXCEPT !.transitions =
          Append(@, PDATransition(from, to, inputSymbol, popSymbol, pushSymbols))]

Configuration(state, remainingInput, stack) ==
  [state |-> state, remainingInput |-> remainingInput, stack |-> stack]

\* The three tests of step under which transition t is skipped on config.
canFire(t, config) ==
  /\ t.from = config.state
  /\ t.inputSymbol # EPSILON =>
       config.remainingInput # <<>> /\ config.remainingInput[1] = t.inputSymbol
  /\ t.popSymbol # EPSILON =>
       config.stack # <<>> /\ config.stack[Len(config.stack)] = t.popSymbol

\* A newConfig whose pushSymbols go on the stack first symbol last, so that
\* the first symbol of pushSymbols is the new top.
fireFirstOnTop(t, config) ==
  Configuration(
    t.to,
    IF t.inputSymbol # EPSILON THEN Tail(config.remainingInput)
    ELSE config.remainingInput,
    (IF t.popSymbol # EPSILON THEN SubSeq(config.stack, 1, Len(config.stack) - 1)
     ELSE config.stack) \o Reverse(t.pushSymbols))

\* newConfig of step: the input symbol consumed, the top popped, then
\* pushSymbols appended, so that its last symbol is the new top.
fire(t, config) ==
  Configuration(
    t.to,
    IF t.inputSymbol # EPSILON THEN Tail(config.remainingInput)
    ELSE config.remainingInput,
    (IF t.popSymbol # EPSILON THEN SubSeq(config.stack, 1, Len(config.stack) - 1)
     ELSE config.stack) \o t.pushSymbols)

\* The transitions that fire on config, in the order of transitions_.
firing(p, config) == SelectSeq(p.transitions, LAMBDA t : canFire(t, config))

firedBy(ts, config) == [i \in 1..Len(ts) |-> fire(ts[i], config)]

step(p, config) == firedBy(firing(p, config), config)

initialConfiguration(p, w) == Configuration(p.startState, w, <<p.initialStackSymbol>>)

\* What a BFS of acceptsByFinalState or acceptsByEmptyStack ends with: the
\* value returned and, not in the code, the number of configurations it
\* took from the queue.
Answer(accepted, dequeues) == [accepted |-> accepted, dequeues |-> dequeues]

\* The loop of acceptsByFinalState: left is what maxIterations holds when
\* the loop condition is evaluated, taken the number of earlier iterations.
RECURSIVE finalLoop(_, _, _, _, _)
finalLoop(p, bfs, visited, left, taken) ==
  IF bfs = <<>> \/ left = 0 THEN Answer(FALSE, taken)
  ELSE IF Head(bfs) \in visited
       THEN finalLoop(p, Tail(bfs), visited, left - 1, taken + 1)
  ELSE IF Head(bfs).remainingInput = <<>> /\ Head(bfs).state \in p.acceptingStates
       THEN Answer(TRUE, taken + 1)
  ELSE finalLoop(p, Tail(bfs) \o step(p, Head(bfs)), visited \cup {Head(bfs)},
                 left - 1, taken + 1)

\* finalLoop answering true when the cap has run out.
RECURSIVE finalLoopOptimistic(_, _, _, _, _)
finalLoopOptimistic(p, bfs, visited, left, taken) ==
  IF bfs = <<>> THEN Answer(FALSE, taken)
  ELSE IF left = 0 THEN Answer(TRUE, taken)
  ELSE IF Head(bfs) \in visited
       THEN finalLoopOptimistic(p, Tail(bfs), visited, left - 1, taken + 1)
  ELSE IF Head(bfs).remainingInput = <<>> /\ Head(bfs).state \in p.acceptingStates
       THEN Answer(TRUE, taken + 1)
  ELSE finalLoopOptimistic(p, Tail(bfs) \o step(p, Head(bfs)),
                           visited \cup {Head(bfs)}, left - 1, taken + 1)

finalStateRunOptimistic(p, w, limit) ==
  IF p.startState < 0 THEN Answer(FALSE, 0)
  ELSE finalLoopOptimistic(p, <<initialConfiguration(p, w)>>, {}, limit, 0)

finalStateRunOneMore(p, w, limit) ==
  IF p.startState < 0 THEN Answer(FALSE, 0)
  ELSE finalLoop(p, <<initialConfiguration(p, w)>>, {}, limit + 1, 0)

\* acceptsByFinalState with its iteration cap as the argument limit.
finalStateRun(p, w, limit) ==
  IF p.startState < 0 THEN Answer(FALSE, 0)
  ELSE finalLoop(p, <<initialConfiguration(p, w)>>, {}, limit, 0)

RECURSIVE emptyLoop(_, _, _, _, _)
emptyLoop(p, bfs, visited, left, taken) ==
  IF bfs = <<>> \/ left = 0 THEN Answer(FALSE, taken)
  ELSE IF Head(bfs) \in visited
       THEN emptyLoop(p, Tail(bfs), visited, left - 1, taken + 1)
  ELSE IF Head(bfs).remainingInput = <<>> /\ Head(bfs).stack = <<>>
       THEN Answer(TRUE, taken + 1)
  ELSE emptyLoop(p, Tail(bfs) \o step(p, Head(bfs)), visited \cup {Head(bfs)},
                 left - 1, taken + 1)

emptyStackRun(p, w, limit) ==
  IF p.startState < 0 THEN Answer(FALSE, 0)
  ELSE emptyLoop(p, <<initialConfiguration(p, w)>>, {}, limit, 0)

\* The iteration cap of acceptsByFinalState and acceptsByEmptyStack.  The
\* code's cap is 10000; the model runs the same loops under a smaller one,
\* so that the searches which exhaust it are among those explored.
maxIterations == 12

acceptsByFinalState(p, w) == finalStateRun(p, w, maxIterations).accepted

acceptsByEmptyStack(p, w) == emptyStackRun(p, w, maxIterations).accepted

\* findAcceptingPath.  nodes is the vector of PathNode, whose indices start
\* at 0 in the code: node i is nodes[i + 1], and the parent of the first is
\* -1.  An optional is a sequence of no or one element.
PathNode(config, transition, parent) ==
  [config |-> config, transition |-> transition, parent |-> parent]

ExecutionStep(before, transition, after) ==
  [before |-> before, transition |-> transition, after |-> after]

\* The path with each step's before taken from the node itself.
RECURSIVE reconstructFromSelf(_, _)
reconstructFromSelf(nodes, i) ==
  IF nodes[i + 1].parent < 0 THEN <<>>
  ELSE Append(reconstructFromSelf(nodes, nodes[i + 1].parent),
              ExecutionStep(nodes[i + 1].config,
                            nodes[i + 1].transition,
                            nodes[i + 1].config))

\* The path the code collects from node i back to the first node, reversed.
RECURSIVE reconstruct(_, _)
reconstruct(nodes, i) ==
  IF nodes[i + 1].parent < 0 THEN <<>>
  ELSE Append(reconstruct(nodes, nodes[i + 1].parent),
              ExecutionStep(nodes[nodes[i + 1].parent + 1].config,
                            nodes[i + 1].transition,
                            nodes[i + 1].config))

\* The nodes pushed for the transitions ts that fire on node idx.
childNodes(ts, config, idx) ==
  [i \in 1..Len(ts) |-> PathNode(fire(ts[i], config), <<ts[i]>>, idx)]

\* The indices the code pushes on the queue for k new nodes after size old ones.
childIndices(size, k) == [i \in 1..k |-> size + i - 1]

\* What findAcceptingPath has done: returned says whether it has returned,
\* path is the optional it returned, dequeues the number of nodes it took
\* from the queue.
PathAnswer(returned, path, dequeues) ==
  [returned |-> returned, path |-> path, dequeues |-> dequeues]

\* The loop of findAcceptingPath has no cap.  The model follows it for
\* bound dequeues and then leaves it running (returned is FALSE).
RECURSIVE pathLoop(_, _, _, _, _, _)
pathLoop(p, nodes, bfs, visited, taken, bound) ==
  IF bfs = <<>> THEN PathAnswer(TRUE, <<>>, taken)
  ELSE IF taken = bound THEN PathAnswer(FALSE, <<>>, taken)
  ELSE IF nodes[Head(bfs) + 1].config \in visited
       THEN pathLoop(p, nodes, Tail(bfs), visited, taken + 1, bound)
  ELSE IF /\ nodes[Head(bfs) + 1].config.remainingInput = <<>>
          /\ nodes[Head(bfs) + 1].config.state \in p.acceptingStates
       THEN PathAnswer(TRUE, <<reconstruct(nodes, Head(bfs))>>, taken + 1)
  ELSE pathLoop(p,
                nodes \o childNodes(firing(p, nodes[Head(bfs) + 1].config),
                                    nodes[Head(bfs) + 1].config, Head(bfs)),
                Tail(bfs) \o childIndices(Len(nodes),
                               Len(firing(p, nodes[Head(bfs) + 1].config))),
                visited \cup {nodes[Head(bfs) + 1].config},
                taken + 1, bound)

findAcceptingPathRun(p, w, bound) ==
  IF p.startState < 0 THEN PathAnswer(TRUE, <<>>, 0)
  ELSE pathLoop(p, <<PathNode(initialConfiguration(p, w), <<>>, -1)>>, <<0>>, {}, 0, bound)

\* Pre-built PDAs and CFG::toPDA.
createBalancedParentheses ==
  PDA_addTransition(
    PDA_addTransition(
      setInitialStackSymbol(PDA_setStartState(PDA_addState(NewPDA, TRUE), 0), "Z"),
      0, 0, "(", EPSILON, <<"(">>),
    0, 0, ")", "(", <<>>)

\* The loop body of createXMLValidator for the letters from index i on: an
\* opening tag c pushes c, the closing tag c - 32 (its uppercase) pops it.
RECURSIVE addTagTransitions(_, _)
addTagTransitions(p, i) ==
  IF i > AsciiIndex("z") THEN p
  ELSE addTagTransitions(
         PDA_addTransition(
           PDA_addTransition(p, 0, 0, Ascii[i], EPSILON, <<Ascii[i]>>),
           0, 0, Ascii[i - 32], Ascii[i], <<>>),
         i + 1)

createXMLValidator ==
  addTagTransitions(
    setInitialStackSymbol(PDA_setStartState(PDA_addState(NewPDA, TRUE), 0), "Z"),
    AsciiIndex("a"))

\* A recognizer without the two transitions that guess the middle
\* character: it takes the palindromes of even length only.
createEvenPalindromeRecognizer ==
  LET s == setInitialStackSymbol(
             PDA_setStartState(
               PDA_addState(PDA_addState(PDA_addState(NewPDA, FALSE), FALSE), TRUE), 0),
             "Z")
      t1 == PDA_addTransition(s, 0, 0, "a", EPSILON, <<"a">>)
      t2 == PDA_addTransition(t1, 0, 0, "b", EPSILON, <<"b">>)
      t5 == PDA_addTransition(t2, 0, 1, EPSILON, EPSILON, <<>>)
      t6 == PDA_addTransition(t5, 1, 1, "a", "a", <<>>)
      t7 == PDA_addTransition(t6, 1, 1, "b", "b", <<>>)
      t8 == PDA_addTransition(t7, 1, 2, EPSILON, "Z", <<>>)
  IN  PDA_addTransition(t8, 0, 2, EPSILON, "Z", <<>>)

createPalindromeRecognizer ==
  LET s == setInitialStackSymbol(
             PDA_setStartState(
               PDA_addState(PDA_addState(PDA_addState(NewPDA, FALSE), FALSE), TRUE), 0),
             "Z")
      t1 == PDA_addTransition(s, 0, 0, "a", EPSILON, <<"a">>)
      t2 == PDA_addTransition(t1, 0, 0, "b", EPSILON, <<"b">>)
      t3 == PDA_addTransition(t2, 0, 1, "a", EPSILON, <<>>)
      t4 == PDA_addTransition(t3, 0, 1, "b", EPSILON, <<>>)
      t5 == PDA_addTransition(t4, 0, 1, EPSILON, EPSILON, <<>>)
      t6 == PDA_addTransition(t5, 1, 1, "a", "a", <<>>)
      t7 == PDA_addTransition(t6, 1, 1, "b", "b", <<>>)
      t8 == PDA_addTransition(t7, 1, 2, EPSILON, "Z", <<>>)
  IN  PDA_addTransition(t8, 0, 2, EPSILON, "Z", <<>>)

createAnBn ==
  LET s == setInitialStackSymbol(
             PDA_setStartState(
               PDA_addState(PDA_addState(PDA_addState(NewPDA, FALSE), FALSE), TRUE), 0),
             "Z")
      t1 == PDA_addTransition(s, 0, 0, "a", EPSILON, <<"A">>)
      t2 == PDA_addTransition(t1, 0, 1, "b", "A", <<>>)
      t3 == PDA_addTransition(t2, 1, 1, "b", "A", <<>>)
      t4 == PDA_addTransition(t3, 1, 2, EPSILON, "Z", <<>>)
  IN  PDA_addTransition(t4, 0, 2, EPSILON, "Z", <<>>)

\* CFG: startSymbol_, terminals_, nonTerminals_ and productions_, a
\* production being <<lhs, rhs>>.
NewCFG == [startSymbol |-> "S", terminals |-> {}, nonTerminals |-> {}, productions |-> <<>>]

addProduction(g, lhs, rhs) ==
  [g EXCEPT !.productions = Append(@, [lhs |-> lhs, rhs |-> rhs]),
            !.nonTerminals = @ \cup {lhs}]

addTerminal(g, symbol) == [g EXCEPT !.terminals = @ \cup {symbol}]

RECURSIVE addProductionTransitions(_, _)
addProductionTransitions(p, prods) ==
  IF prods = <<>> THEN p
  ELSE addProductionTransitions(
         PDA_addTransition(p, 1, 1, EPSILON, prods[1].lhs, Reverse(prods[1].rhs)),
         Tail(prods))

RECURSIVE addTerminalTransitions(_, _)
addTerminalTransitions(p, ts) ==
  IF ts = <<>> THEN p
  ELSE addTerminalTransitions(PDA_addTransition(p, 1, 1, ts[1], ts[1], <<>>), Tail(ts))

toPDA(g) ==
  LET s == setInitialStackSymbol(
             PDA_setStartState(
               PDA_addState(PDA_addState(PDA_addState(NewPDA, FALSE), FALSE), TRUE), 0),
             "Z")
      t0 == PDA_addTransition(s, 0, 1, EPSILON, "Z", <<g.startSymbol, "Z">>)
      t1 == addProductionTransitions(t0, g.productions)
      t2 == addTerminalTransitions(t1, SortedSymbols(g.terminals))
  IN  PDA_addTransition(t2, 1, 2, EPSILON, "Z", <<>>)

(***************************************************************************)
(* ApproximateMatcher (approximate_matcher.cpp).  A std::string is a       *)
(* sequence of one-character strings.                                      *)
(***************************************************************************)
SUBSTITUTION == 1

INSERTION == 2

DELETION == 4

ALL == 7

\* editTypes_ & flag, flag being one of the three one-bit values above.
allows(editTypes, flag) == (editTypes \div flag) % 2 = 1

\* 'A'..'Z' and 'a'..'z'.
Letters ==
  {Ascii[i] : i \in (AsciiIndex("A")..AsciiIndex("Z")) \cup (AsciiIndex("a")..AsciiIndex("z"))}

buildAlphabet(pattern) == Range(pattern) \cup Letters

ApproximateMatcher(pattern, maxDistance, editTypes) ==
  [pattern |-> pattern, maxDistance |-> maxDistance, editTypes |-> editTypes,
   alphabet |-> buildAlphabet(pattern)]

\* stateMap[{pos, edits}] of buildNFA: the id addState returned in the loops over pos
\* and edits, ids being given out in order from 0.
matcherStateMap(m, pos, edits) == pos * (m.maxDistance + 1) + edits

\* The sequence of <<pos, edits>> in the order of the two nested loops, pos
\* up to lastPos.
cells(m, lastPos) ==
  [i \in 1..((lastPos + 1) * (m.maxDistance + 1)) |->
     <<(i - 1) \div (m.maxDistance + 1), (i - 1) % (m.maxDistance + 1)>>]

RECURSIVE addMatcherStates(_, _, _)
addMatcherStates(n, m, cs) ==
  IF cs = <<>> THEN n
  ELSE addMatcherStates(NFA_addState(n, cs[1][1] = Len(m.pattern)), m, Tail(cs))

\* The transitions in a row on each symbol of the sequence symbols.
onEach(from, to, symbols) == [i \in 1..Len(symbols) |-> <<from, to, symbols[i]>>]

\* The transitions the loop body adds for the state (pos, edits), in order.
cellTransitions(m, pos, edits) ==
  <<<<matcherStateMap(m, pos, edits), matcherStateMap(m, pos + 1, edits),
      m.pattern[pos + 1]>>>>
  \o (IF edits < m.maxDistance /\ allows(m.editTypes, SUBSTITUTION)
      THEN onEach(matcherStateMap(m, pos, edits), matcherStateMap(m, pos + 1, edits + 1),
                  SortedSymbols(m.alphabet \ {m.pattern[pos + 1]}))
      ELSE <<>>)
  \o (IF edits < m.maxDistance /\ allows(m.editTypes, INSERTION)
      THEN onEach(matcherStateMap(m, pos, edits), matcherStateMap(m, pos, edits + 1),
                  SortedSymbols(m.alphabet))
      ELSE <<>>)
  \o (IF edits < m.maxDistance /\ allows(m.editTypes, DELETION)
      THEN <<<<matcherStateMap(m, pos, edits), matcherStateMap(m, pos + 1, edits + 1),
               EPSILON>>>>
      ELSE <<>>)

\* NFA::addTransition for each <<from, to, symbol>> of ts in order: all are
\* appended, or those before the first one that names a missing state.
addTransitionsInOrder(n, ts) ==
  LET bad == {i \in 1..Len(ts) :
                ts[i][1] \notin DOMAIN n.states \/ ts[i][2] \notin DOMAIN n.states}
      upto == IF bad = {} THEN Len(ts) ELSE Min(bad) - 1
  IN  IF n.exc # "" THEN n
      ELSE [n EXCEPT !.transitions =
                       @ \o [i \in 1..upto |-> Transition(ts[i][1], ts[i][2], ts[i][3])],
                     !.exc = IF bad = {} THEN @ ELSE "InvalidStateException"]

RECURSIVE addMatcherTransitions(_, _, _)
addMatcherTransitions(n, m, cs) ==
  IF cs = <<>> THEN n
  ELSE addMatcherTransitions(
         addTransitionsInOrder(n, cellTransitions(m, cs[1][1], cs[1][2])), m, Tail(cs))

\* ApproximateMatcher::buildNFA.  The transitions start at the positions
\* before the last one: the loop over pos stops at n - 1.
buildNFA_Matcher(m) ==
  addMatcherTransitions(
    NFA_setStartState(addMatcherStates(NewNFA, m, cells(m, Len(m.pattern))),
                      matcherStateMap(m, 0, 0)),
    m, cells(m, Len(m.pattern) - 1))

\* ApproximateMatcher::matches.
matcherMatches(m, text) == NFA_accepts(buildNFA_Matcher(m), text)

Min3(a, b, c) == Min({a, b, c})

\* editDistance that counts a substitution as two edits.
editDistanceIndel(s1, s2) ==
  LET dp[i \in 0..Len(s1), j \in 0..Len(s2)] ==
        IF j = 0 THEN i
        ELSE IF i = 0 THEN j
        ELSE IF s1[i] = s2[j] THEN dp[i - 1, j - 1]
        ELSE 1 + Min3(dp[i - 1, j], dp[i, j - 1], dp[i - 1, j - 1] + 1)
  IN  dp[Len(s1), Len(s2)]

\* ApproximateMatcher::editDistance: dp is the table of the code.
editDistance(s1, s2) ==
  LET dp[i \in 0..Len(s1), j \in 0..Len(s2)] ==
        IF j = 0 THEN i
        ELSE IF i = 0 THEN j
        ELSE IF s1[i] = s2[j] THEN dp[i - 1, j - 1]
        ELSE 1 + Min3(dp[i - 1, j], dp[i, j - 1], dp[i - 1, j - 1])
  IN  dp[Len(s1), Len(s2)]

\* A Match: start and end count from 0, end is one past the last character.
Match(start, end, dist, matchedText) ==
  [start |-> start, end |-> end, editDistance |-> dist, matchedText |-> matchedText]

\* text.substr(start, len), start counting from 0.
substr(text, start, len) == SubSeq(text, start + 1, start + len)

\* findAllLen reporting the index of the last character as the end.
RECURSIVE findAllLenInclusiveEnd(_, _, _, _, _)
findAllLenInclusiveEnd(m, nfa, text, start, len) ==
  IF ~(len <= Len(text) - start /\ len <= Len(m.pattern) + m.maxDistance) THEN <<>>
  ELSE (IF /\ NFA_accepts(nfa, substr(text, start, len))
           /\ editDistance(m.pattern, substr(text, start, len)) <= m.maxDistance
        THEN <<Match(start, start + len - 1,
                     editDistance(m.pattern, substr(text, start, len)),
                     substr(text, start, len))>>
        ELSE <<>>)
       \o findAllLenInclusiveEnd(m, nfa, text, start, len + 1)

\* The inner loop of findAll over len, from len on.
RECURSIVE findAllLen(_, _, _, _, _)
findAllLen(m, nfa, text, start, len) ==
  IF ~(len <= Len(text) - start /\ len <= Len(m.pattern) + m.maxDistance) THEN <<>>
  ELSE (IF /\ NFA_accepts(nfa, substr(text, start, len))
           /\ editDistance(m.pattern, substr(text, start, len)) <= m.maxDistance
        THEN <<Match(start, start + len,
                     editDistance(m.pattern, substr(text, start, len)),
                     substr(text, start, len))>>
        ELSE <<>>)
       \o findAllLen(m, nfa, text, start, len + 1)

\* The outer loop of findAll over start, from start on.
RECURSIVE findAllStart(_, _, _, _)
findAllStart(m, nfa, text, start) ==
  IF ~(start < Len(text)) THEN <<>>
  ELSE findAllLen(m, nfa, text, start, 1) \o findAllStart(m, nfa, text, start + 1)

\* findAll with its outer loop started at the second character.
findAllSkipFirst(m, text) == findAllStart(m, buildNFA_Matcher(m), text, 1)

findAll(m, text) == findAllStart(m, buildNFA_Matcher(m), text, 0)

(***************************************************************************)
(* JSON rendering (json_serializer.cpp and the toJson methods).  A JSON    *)
(* text is a TLA+ string, built byte by byte as the code builds it; a      *)
(* std::string of the program stays a sequence of characters.  A byte      *)
(* above 127 is written as the Latin-1 character of its value, so the      *)
(* UTF-8 string for epsilon, the bytes 0xCE 0xB5, is <<"Î", "µ">>.         *)
(* Of the control characters only NUL is in the character set here.        *)
(***************************************************************************)
EPSILON_UTF8 == <<"Î", "µ">>

RECURSIVE to_string(_)
to_string(n) ==
  IF n < 0 THEN <<"-">> \o to_string(-n)
  ELSE IF n < 10 THEN <<Digits[n + 1]>>
  ELSE to_string(n \div 10) \o <<Digits[(n % 10) + 1]>>

\* oss << s: the characters of s as they are.
RECURSIVE raw(_)
raw(s) == IF s = <<>> THEN "" ELSE Head(s) \o raw(Tail(s))

escapeChar(c) ==
  CASE c = "\"" -> "\\\""
    [] c = "\\" -> "\\\\"
    [] c = EPSILON -> "\\u0000"
    [] OTHER -> c

RECURSIVE escape(_)
escape(s) == IF s = <<>> THEN "" ELSE escapeChar(Head(s)) \o escape(Tail(s))

stringify(s) == "\"" \o escape(s) \o "\""

stringifyInt(value) == raw(to_string(value))

stringifyBool(value) == IF value THEN "true" ELSE "false"

\* pairs: the (key, rendered value) pairs in the order they were added.
RECURSIVE ObjectBuilder_pairs(_, _)
ObjectBuilder_pairs(pairs, i) ==
  IF i > Len(pairs) THEN ""
  ELSE (IF i > 1 THEN "," ELSE "") \o "\"" \o pairs[i][1] \o "\":" \o pairs[i][2]
       \o ObjectBuilder_pairs(pairs, i + 1)

ObjectBuilder_build(pairs) ==
  IF pairs = <<>> THEN "{}" ELSE "{" \o ObjectBuilder_pairs(pairs, 1) \o "}"

RECURSIVE ArrayBuilder_items(_, _)
ArrayBuilder_items(items, i) ==
  IF i > Len(items) THEN ""
  ELSE (IF i > 1 THEN "," ELSE "") \o items[i] \o ArrayBuilder_items(items, i + 1)

ArrayBuilder_build(items) ==
  IF items = <<>> THEN "[]" ELSE "[" \o ArrayBuilder_items(items, 1) \o "]"

\* The label of a state made with an empty label: "q" and its id.
label(id) == <<"q">> \o to_string(id)

State_toJson(id, s) ==
  ObjectBuilder_build(<<
    <<"id", stringifyInt(id)>>,
    <<"label", stringify(label(id))>>,
    <<"isAccepting", stringifyBool(s.isAccepting)>>,
    <<"isStart", stringifyBool(s.isStart)>> >>)

symbolToString(s) == IF s = EPSILON THEN EPSILON_UTF8 ELSE <<s>>

Transition_toJson(t) ==
  ObjectBuilder_build(<<
    <<"from", stringifyInt(t.from)>>,
    <<"to", stringifyInt(t.to)>>,
    <<"symbol", stringify(symbolToString(t.symbol))>>,
    <<"isEpsilon", stringifyBool(t.symbol = EPSILON)>> >>)

PDATransition_toJson(t) ==
  ObjectBuilder_build(<<
    <<"from", stringifyInt(t.from)>>,
    <<"to", stringifyInt(t.to)>>,
    <<"inputSymbol",
      stringify(IF t.inputSymbol = EPSILON THEN EPSILON_UTF8 ELSE <<t.inputSymbol>>)>>,
    <<"popSymbol",
      stringify(IF t.popSymbol = EPSILON THEN EPSILON_UTF8 ELSE <<t.popSymbol>>)>>,
    <<"pushSymbols",
      stringify(IF t.pushSymbols = <<>> THEN EPSILON_UTF8 ELSE t.pushSymbols)>> >>)

\* The three arrays every toJson builds: the states by id, the transitions
\* in the order they were added, the accepting ids in ascending order.
statesArray(a) ==
  LET ids == SortedIds(DOMAIN a.states)
  IN  ArrayBuilder_build([i \in 1..Len(ids) |-> State_toJson(ids[i], a.states[ids[i]])])

acceptingArray(a) ==
  LET ids == SortedIds(a.acceptingStates)
  IN  ArrayBuilder_build([i \in 1..Len(ids) |-> stringifyInt(ids[i])])

transitionsArray(a) ==
  ArrayBuilder_build([i \in 1..Len(a.transitions) |-> Transition_toJson(a.transitions[i])])

NFA_toJson(n) ==
  ObjectBuilder_build(<<
    <<"type", stringify(<<"N", "F", "A">>)>>,
    <<"startState", stringifyInt(n.startState)>>,
    <<"acceptingStates", acceptingArray(n)>>,
    <<"states", statesArray(n)>>,
    <<"transitions", transitionsArray(n)>> >>)

DFA_toJson(d) ==
  ObjectBuilder_build(<<
    <<"type", stringify(<<"D", "F", "A">>)>>,
    <<"startState", stringifyInt(d.startState)>>,
    <<"acceptingStates", acceptingArray(d)>>,
    <<"states", statesArray(d)>>,
    <<"transitions", transitionsArray(d)>> >>)

PDA_toJson(p) ==
  ObjectBuilder_build(<<
    <<"type", stringify(<<"P", "D", "A">>)>>,
    <<"startState", stringifyInt(p.startState)>>,
    <<"initialStackSymbol", stringify(<<p.initialStackSymbol>>)>>,
    <<"acceptingStates", acceptingArray(p)>>,
    <<"states", statesArray(p)>>,
    <<"transitions",
      ArrayBuilder_build([i \in 1..Len(p.transitions) |->
                            PDATransition_toJson(p.transitions[i])])>> >>)

\* fromJson is declared (nfa.hpp, dfa.hpp, pda.hpp) and defined in no
\* source file.  By the specification it accepts any output of toJson and
\* returns an automaton whose rendering is that text: the automata among
\* those of universe that it may return for json.
NFA_fromJson(universe, json) == {a \in universe : NFA_toJson(a) = json}

DFA_fromJson(universe, json) == {a \in universe : DFA_toJson(a) = json}

PDA_fromJson(universe, json) == {a \in universe : PDA_toJson(a) = json}

(***************************************************************************)
(* The text of an AST (regex_parser.cpp), a sequence of characters.        *)
(***************************************************************************)
RECURSIVE ASTNode_toString(_)
ASTNode_toString(node) ==
  CASE node.type = "EPSILON" -> EPSILON_UTF8
    [] node.type = "CHAR" -> <<node.value>>
    [] node.type = "ANY" -> <<".">>
    [] node.type = "CHAR_CLASS" -> <<"[">> \o SortedSymbols(node.charClass) \o <<"]">>
    [] node.type = "UNION" ->
         <<"(">> \o ASTNode_toString(node.children[1]) \o <<"|">>
                 \o ASTNode_toString(node.children[2]) \o <<")">>
    [] node.type = "CONCAT" ->
         ASTNode_toString(node.children[1]) \o ASTNode_toString(node.children[2])
    [] node.type = "STAR" -> <<"(">> \o ASTNode_toString(node.children[1]) \o <<")", "*">>
    [] node.type = "PLUS" -> <<"(">> \o ASTNode_toString(node.children[1]) \o <<")", "+">>
    [] node.type = "OPTIONAL" -> <<"(">> \o ASTNode_toString(node.children[1]) \o <<")", "?">>
    [] node.type = "GROUP" -> <<"(">> \o ASTNode_toString(node.children[1]) \o <<")">>
    [] node.type = "START_ANCHOR" -> <<"^">>
    [] node.type = "END_ANCHOR" -> <<"$">>
    [] node.type = "REPEAT_N" ->
         <<"(">> \o ASTNode_toString(node.children[1]) \o <<")", "{">>
           \o to_string(node.minRepeat)
           \o (IF node.maxRepeat = -1 THEN <<",", "}">>
               ELSE IF node.maxRepeat # node.minRepeat
                    THEN <<",">> \o to_string(node.maxRepeat) \o <<"}">>
               ELSE <<"}">>)
    [] OTHER -> <<"?">>

\* astString_ when ast_ is a: parse assigns the two together, and both
\* start empty.
getASTString(a) == IF a.type = "NULL" THEN <<>> ELSE ASTNode_toString(a)

(***************************************************************************)
(* The state: one RegexParser (pattern, ast), the automata of the          *)
(* pipeline pattern -> NFA -> DFA -> minimised DFA, a second DFA for the   *)
(* product operations, a PDA with the grammar it may come from, an         *)
(* ApproximateMatcher, and the outcome of the last call on each.           *)
(***************************************************************************)
VARIABLES
  pc,        \* the stage reached
  pattern,   \* the pattern given to RegexParser::parse
  ast,       \* RegexParser::ast_
  nfa,       \* the NFA in hand (the first operand of a Thompson composition)
  dfa,       \* the DFA in hand
  other,     \* the second operand of a product operation or a composition
  out,       \* the automaton an operation made of dfa or nfa (and other)
  out2,      \* the DFA minimize made of out
  input,     \* the argument of the last accepts or findAllMatches call, or
             \* the text toJson returned
  result,    \* what accepts returned on input, per automaton, or the
             \* automaton fromJson returned
  matches,   \* what findAllMatches or findAll returned on input
  pda,       \* the PDA in hand
  cfg,       \* the CFG in hand
  matcher,   \* the ApproximateMatcher in hand
  run        \* what the last call returned, or how it ended

vars ==
  <<pc, pattern, ast, nfa, dfa, other, out, out2, input, result, matches,
    pda, cfg, matcher, run>>

NoResult == [nfa |-> FALSE, dfa |-> FALSE, out |-> FALSE]

NoMatcher == [pattern |-> <<>>, maxDistance |-> 0, editTypes |-> 0, alphabet |-> {}]

NoRun == Answer(FALSE, 0)

\* No PDA, CFG or ApproximateMatcher has been made.
NoPushdown ==
  /\ pda = NewPDA
  /\ cfg = NewCFG
  /\ matcher = NoMatcher
  /\ run = NoRun

\* No parser, NFA or DFA has been made.
NoRegex ==
  /\ pattern = <<>>
  /\ ast = NullAST
  /\ nfa = NewNFA
  /\ dfa = NewDFA
  /\ other = NewDFA
  /\ out = NewDFA
  /\ out2 = NewDFA
  /\ result = NoResult

\* RegexParser::parse(pattern).
ParseReturns(r) ==
  /\ ast' = r.ast
  /\ nfa' = IF r.ok /\ r.nfa.exc = "" THEN r.nfa ELSE nfa
  /\ pc' = IF r.ok /\ r.nfa.exc = "" THEN "nfa" ELSE "error"

Parse ==
  /\ pc = "pattern"
  /\ ParseReturns(parse(pattern, ast))
  /\ UNCHANGED <<pda, cfg, matcher, run, pattern, dfa, other, out, out2, input, result, matches>>

\* DFA::fromNFA(nfa).
FromNFAReturns(d) ==
  /\ dfa' = IF d.exc = "" THEN d ELSE dfa
  /\ pc' = IF d.exc = "" THEN "dfa" ELSE "error"

Determinize ==
  /\ pc = "nfa"
  /\ FromNFAReturns(fromNFA(nfa))
  /\ UNCHANGED <<pda, cfg, matcher, run, pattern, ast, nfa, other, out, out2, input, result, matches>>

\* dfa.minimize().
MinimizeReturns(m) ==
  /\ out' = IF m.exc = "" THEN m ELSE out
  /\ pc' = IF m.exc = "" THEN "min" ELSE "error"

Minimize ==
  /\ pc = "dfa"
  /\ MinimizeReturns(minimize(dfa))
  /\ UNCHANGED <<pda, cfg, matcher, run, pattern, ast, nfa, dfa, other, out2, input, result, matches>>

\* accepts(w) on the NFA, the DFA and the minimised DFA.
Accepts(w) ==
  /\ pc = "min"
  /\ input' = w
  /\ result' = [nfa |-> NFA_accepts(nfa, w), dfa |-> DFA_accepts(dfa, w),
                out |-> DFA_accepts(out, w)]
  /\ pc' = "matched"
  /\ UNCHANGED <<pda, cfg, matcher, run, pattern, ast, nfa, dfa, other, out, out2, matches>>

\* out.minimize(), out being the result of dfa.minimize().
MinimizeAgainReturns(m) ==
  /\ out2' = IF m.exc = "" THEN m ELSE out2
  /\ pc' = IF m.exc = "" THEN "min2" ELSE "error2"

MinimizeAgain ==
  /\ pc = "min"
  /\ MinimizeAgainReturns(minimize(out))
  /\ UNCHANGED <<pda, cfg, matcher, run, pattern, ast, nfa, dfa, other, out, input, result, matches>>

\* dfa.complement().
Complement ==
  /\ pc = "dfa"
  /\ out' = complement(dfa)
  /\ pc' = "comp"
  /\ UNCHANGED <<pda, cfg, matcher, run, pattern, ast, nfa, dfa, other, out2, input, result, matches>>

\* dfa.findAllMatches(text).
FindAllMatches(text) ==
  /\ pc = "dfa"
  /\ input' = text
  /\ matches' = findAllMatches(dfa, text)
  /\ pc' = "matches"
  /\ UNCHANGED <<pda, cfg, matcher, run, pattern, ast, nfa, dfa, other, out, out2, result>>

InitRegex ==
  /\ pc = "pattern"
  /\ pattern \in Patterns
  /\ ast = NullAST
  /\ nfa = NewNFA
  /\ dfa = NewDFA
  /\ other = NewDFA
  /\ out = NewDFA
  /\ out2 = NewDFA
  /\ input = <<>>
  /\ result = NoResult
  /\ matches = <<>>
  /\ NoPushdown

NextRegex ==
  \/ Parse
  \/ Determinize
  \/ Minimize
  \/ \E w \in Words : Accepts(w)

\* The pipeline of one pattern: parse, subset construction, minimisation, matching.
SpecRegex == InitRegex /\ [][NextRegex]_vars

\* DFA::intersection(dfa, other).
IntersectionReturns(d) ==
  /\ out' = IF d.exc = "" THEN d ELSE out
  /\ pc' = IF d.exc = "" THEN "and" ELSE "error_and"

Intersect ==
  /\ pc = "pair"
  /\ IntersectionReturns(intersection(dfa, other))
  /\ UNCHANGED <<pda, cfg, matcher, run, pattern, ast, nfa, dfa, other, out2, input, result, matches>>

\* DFA::unionDFA(dfa, other).
UnionReturns(d) ==
  /\ out' = IF d.exc = "" THEN d ELSE out
  /\ pc' = IF d.exc = "" THEN "or" ELSE "error_or"

Union ==
  /\ pc = "pair"
  /\ UnionReturns(unionDFA(dfa, other))
  /\ UNCHANGED <<pda, cfg, matcher, run, pattern, ast, nfa, dfa, other, out2, input, result, matches>>

InitDFA ==
  /\ pc = "dfa"
  /\ pattern = <<>>
  /\ ast = NullAST
  /\ nfa = NewNFA
  /\ \/ \E n \in 0..MaxDfaStates :
          \E acc \in SUBSET (0..(n - 1)), start \in (IF n = 0 THEN {0} ELSE 0..(n - 1)),
             delta \in [(0..(n - 1)) \X Sigma -> -1..(n - 1)] :
            dfa = MakeDFA(n, acc, start, delta)
     \/ dfa \in {DFA_S3, DFA_Chain}
  /\ other = NewDFA
  /\ out = NewDFA
  /\ out2 = NewDFA
  /\ input = <<>>
  /\ result = NoResult
  /\ matches = <<>>
  /\ NoPushdown

NextDFA ==
  \/ Minimize
  \/ MinimizeAgain
  \/ Complement

\* The operations that make a DFA of one DFA built through addState,
\* setStartState and addTransition: minimisation (twice) and complement.
SpecDFA == InitDFA /\ [][NextDFA]_vars

NextMatch == \E text \in Words : FindAllMatches(text)

\* findAllMatches on one DFA built through addState, setStartState and
\* addTransition.
SpecMatch == InitDFA /\ [][NextMatch]_vars

InitProduct ==
  /\ pc = "pair"
  /\ pattern = <<>>
  /\ ast = NullAST
  /\ nfa = NewNFA
  /\ \E pair \in PairInputs(MaxDfaStates, MaxOtherStates) : dfa = pair[1] /\ other = pair[2]
  /\ out = NewDFA
  /\ out2 = NewDFA
  /\ input = <<>>
  /\ result = NoResult
  /\ matches = <<>>
  /\ NoPushdown

NextProduct ==
  \/ Intersect
  \/ Union

\* The product operations on two DFAs, one of them over another alphabet.
SpecProduct == InitProduct /\ [][NextProduct]_vars

\* Either an NFA built through addState, setStartState and addTransition,
\* or the pattern (a|b)*abb still to parse.
InitNFA ==
  /\ \/ (pc = "nfa" /\ pattern = <<>> /\ nfa \in NFAInputs(MaxNfaStates))
     \/ (pc = "pattern" /\ pattern = Pat_S3 /\ nfa = NewNFA)
  /\ ast = NullAST
  /\ dfa = NewDFA
  /\ other = NewDFA
  /\ out = NewDFA
  /\ out2 = NewDFA
  /\ input = <<>>
  /\ result = NoResult
  /\ matches = <<>>
  /\ NoPushdown

NextNFA ==
  \/ Parse
  \/ Determinize
  \/ Minimize

\* Subset construction and minimisation of an NFA.
SpecNFA == InitNFA /\ [][NextNFA]_vars

(***************************************************************************)
(* Pushdown automata: the inputs and the operations on them.               *)
(***************************************************************************)
MaxPdaStates == 2

MaxPdaTransitions == 2

MaxPdaInputLen == 4

\* The nodes findAcceptingPath may take from its queue before the model
\* leaves it running: more than the cap of the boolean entry points.
MaxPathDequeues == maxIterations + 2

PdaInputSymbols == {"a", EPSILON}

PdaPopSymbols == {"Z", "A", EPSILON}

PdaPushStrings == {<<>>, <<"A">>}

PdaTransitions(n) ==
  {PDATransition(from, to, inputSymbol, popSymbol, pushSymbols) :
     from \in 0..(n - 1), to \in 0..(n - 1), inputSymbol \in PdaInputSymbols,
     popSymbol \in PdaPopSymbols, pushSymbols \in PdaPushStrings}

RECURSIVE addPdaStates(_, _, _)
addPdaStates(p, n, acc) ==
  IF n = 0 THEN p
  ELSE PDA_addState(addPdaStates(p, n - 1, acc), (n - 1) \in acc)

RECURSIVE addPdaTransitions(_, _)
addPdaTransitions(p, ts) ==
  IF ts = <<>> THEN p
  ELSE addPdaTransitions(
         PDA_addTransition(p, ts[1].from, ts[1].to, ts[1].inputSymbol,
                           ts[1].popSymbol, ts[1].pushSymbols),
         Tail(ts))

\* The PDA of n states, those of acc accepting, with the transitions ts.
MakePDA(n, acc, start, ts) ==
  addPdaTransitions(
    setInitialStackSymbol(PDA_setStartState(addPdaStates(NewPDA, n, acc), start), "Z"),
    ts)

\* S -> aSb | (empty)
CFG_AnBn ==
  addTerminal(addTerminal(
    addProduction(addProduction(NewCFG, "S", <<"a", "S", "b">>), "S", <<>>), "a"), "b")

\* S -> a
CFG_A == addTerminal(addProduction(NewCFG, "S", <<"a">>), "a")

\* S -> aS | b
CFG_AStarB ==
  addTerminal(addTerminal(
    addProduction(addProduction(NewCFG, "S", <<"a", "S">>), "S", <<"b">>), "a"), "b")

\* S -> AB, A -> a, B -> b | (empty)
CFG_AB ==
  addTerminal(addTerminal(
    addProduction(addProduction(addProduction(addProduction(NewCFG,
      "S", <<"A", "B">>), "A", <<"a">>), "B", <<"b">>), "B", <<>>), "a"), "b")

Grammars == {CFG_AnBn, CFG_A, CFG_AStarB, CFG_AB}

\* The symbols the transitions of p read, or "a" when they read none.
inputSymbolsOf(p) ==
  IF {p.transitions[i].inputSymbol : i \in 1..Len(p.transitions)} \subseteq {EPSILON}
  THEN {"a"}
  ELSE {p.transitions[i].inputSymbol : i \in 1..Len(p.transitions)} \ {EPSILON}

PdaWords(p) == Seqs(inputSymbolsOf(p), MaxPdaInputLen)

CreateBalancedParentheses ==
  /\ pc = "new"
  /\ pda' = createBalancedParentheses
  /\ pc' = "pda"
  /\ UNCHANGED <<cfg, matcher, run, pattern, ast, nfa, dfa, other, out, out2,
                 input, result, matches>>

ToPDA ==
  /\ pc = "cfg"
  /\ pda' = toPDA(cfg)
  /\ pc' = "pda"
  /\ UNCHANGED <<cfg, matcher, run, pattern, ast, nfa, dfa, other, out, out2,
                 input, result, matches>>

AcceptsByFinalState(w) ==
  /\ pc = "pda"
  /\ input' = w
  /\ run' = finalStateRun(pda, w, maxIterations)
  /\ pc' = "final"
  /\ UNCHANGED <<pda, cfg, matcher, pattern, ast, nfa, dfa, other, out, out2,
                 result, matches>>

AcceptsByEmptyStack(w) ==
  /\ pc = "pda"
  /\ input' = w
  /\ run' = emptyStackRun(pda, w, maxIterations)
  /\ pc' = "empty"
  /\ UNCHANGED <<pda, cfg, matcher, pattern, ast, nfa, dfa, other, out, out2,
                 result, matches>>

FindAcceptingPath(w) ==
  /\ pc = "pda"
  /\ input' = w
  /\ run' = findAcceptingPathRun(pda, w, MaxPathDequeues)
  /\ pc' = "path"
  /\ UNCHANGED <<pda, cfg, matcher, pattern, ast, nfa, dfa, other, out, out2,
                 result, matches>>

\* No PDA yet, or a grammar to convert, or a PDA built through addState,
\* setStartState, setInitialStackSymbol and addTransition, or createAnBn().
InitPDA ==
  /\ \/ (pc = "new" /\ pda = NewPDA /\ cfg = NewCFG)
     \/ (pc = "cfg" /\ pda = NewPDA /\ cfg \in Grammars)
     \/ (pc = "pda" /\ pda = createAnBn /\ cfg = NewCFG)
     \/ (/\ pc = "pda"
         /\ cfg = NewCFG
         /\ \E n \in 1..MaxPdaStates :
              \E acc \in SUBSET (0..(n - 1)), start \in 0..(n - 1),
                 ts \in Seqs(PdaTransitions(n), MaxPdaTransitions) :
                pda = MakePDA(n, acc, start, ts))
  /\ matcher = NoMatcher
  /\ run = NoRun
  /\ input = <<>>
  /\ matches = <<>>
  /\ NoRegex

NextPDA ==
  \/ CreateBalancedParentheses
  \/ ToPDA
  \/ \E w \in PdaWords(pda) : AcceptsByFinalState(w)
  \/ \E w \in PdaWords(pda) : AcceptsByEmptyStack(w)
  \/ \E w \in PdaWords(pda) : FindAcceptingPath(w)

\* The acceptance tests and the path search of a PDA.
SpecPDA == InitPDA /\ [][NextPDA]_vars

(***************************************************************************)
(* PDA::step from one configuration to the next: run.config is the         *)
(* configuration in hand and run.next what step returned on it.            *)
(***************************************************************************)
MaxStepTransitions == 2

MaxStepInputLen == 1

MaxStepStack == 3

StepTransitions ==
  {PDATransition(0, to, inputSymbol, popSymbol, pushSymbols) :
     to \in 0..1, inputSymbol \in {"a", EPSILON}, popSymbol \in {"Z", EPSILON},
     pushSymbols \in {<<>>, <<"A", "Z">>}}

StepStacks == {<<>>, <<"Z">>, <<"A">>, <<"A", "Z">>}

\* step(run.config).
Step ==
  /\ pc = "config"
  /\ run' = [run EXCEPT !.next = step(pda, run.config)]
  /\ pc' = "stepped"
  /\ UNCHANGED <<pda, cfg, matcher, pattern, ast, nfa, dfa, other, out, out2,
                 input, result, matches>>

\* The caller goes on with the i-th configuration that step returned.
Follow(i) ==
  /\ pc = "stepped"
  /\ i \in 1..Len(run.next)
  /\ Len(run.next[i].stack) <= MaxStepStack
  /\ run' = [config |-> run.next[i], next |-> <<>>]
  /\ pc' = "config"
  /\ UNCHANGED <<pda, cfg, matcher, pattern, ast, nfa, dfa, other, out, out2,
                 input, result, matches>>

InitStep ==
  /\ pc = "config"
  /\ \E ts \in Seqs(StepTransitions, MaxStepTransitions) :
       pda = MakePDA(2, {1}, 0, ts)
  /\ \E state \in 0..1, remainingInput \in Seqs({"a", "b"}, MaxStepInputLen),
        stack \in StepStacks :
       run = [config |-> Configuration(state, remainingInput, stack), next |-> <<>>]
  /\ cfg = NewCFG
  /\ matcher = NoMatcher
  /\ input = <<>>
  /\ matches = <<>>
  /\ NoRegex

NextStep ==
  \/ Step
  \/ \E i \in 1..MaxStepTransitions : Follow(i)

SpecStep == InitStep /\ [][NextStep]_vars

(***************************************************************************)
(* Approximate matching: the matchers, the texts and the operations.       *)
(***************************************************************************)
MaxMatcherPatLen == 2

MaxEditDistance == 2

MaxTextLen == 3

MatcherSymbols == {"a", "b"}

Pat_ATG == <<"A", "T", "G">>

Text_ATGCGATCG == <<"A", "T", "G", "C", "G", "A", "T", "C", "G">>

MatcherTexts == Seqs(MatcherSymbols, MaxTextLen) \cup {Text_ATGCGATCG}

\* ApproximateMatcher::matches(w), that is buildNFA().accepts(w).
MatcherMatches(w) ==
  /\ pc = "matcher"
  /\ input' = w
  /\ run' = [accepted |-> matcherMatches(matcher, w)]
  /\ pc' = "accepts"
  /\ UNCHANGED <<pda, cfg, matcher, pattern, ast, nfa, dfa, other, out, out2,
                 result, matches>>

FindAll(text) ==
  /\ pc = "matcher"
  /\ input' = text
  /\ matches' = findAll(matcher, text)
  /\ pc' = "found"
  /\ UNCHANGED <<pda, cfg, matcher, run, pattern, ast, nfa, dfa, other, out, out2,
                 result>>

\* The static ApproximateMatcher::editDistance(s1, s2).
EditDistance(s1, s2) ==
  /\ pc = "static"
  /\ input' = <<s1, s2>>
  /\ run' = [distance |-> editDistance(s1, s2)]
  /\ pc' = "distance"
  /\ UNCHANGED <<pda, cfg, matcher, pattern, ast, nfa, dfa, other, out, out2,
                 result, matches>>

\* A matcher constructed from a pattern, a maximal distance and a mask of
\* edit types, or no matcher for the static editDistance.
InitMatcher ==
  /\ \/ (pc = "static" /\ matcher = NoMatcher)
     \/ (pc = "matcher" /\ matcher = ApproximateMatcher(Pat_ATG, 1, ALL))
     \/ (/\ pc = "matcher"
         /\ \E p \in Seqs(MatcherSymbols, MaxMatcherPatLen),
               k \in 0..MaxEditDistance, editTypes \in 0..ALL :
              matcher = ApproximateMatcher(p, k, editTypes))
  /\ pda = NewPDA
  /\ cfg = NewCFG
  /\ run = NoRun
  /\ input = <<>>
  /\ matches = <<>>
  /\ NoRegex

NextMatcher ==
  \/ \E w \in MatcherTexts : MatcherMatches(w)
  \/ \E text \in MatcherTexts : FindAll(text)
  \/ \E s1, s2 \in Seqs(MatcherSymbols, MaxTextLen) : EditDistance(s1, s2)

\* The Levenshtein NFA, findAll and editDistance.
SpecMatcher == InitMatcher /\ [][NextMatcher]_vars

(***************************************************************************)
(* Subset construction of an NFA that has no state: a new NFA, one that a  *)
(* composition has moved from, and one that renumberStates has been called *)
(* on (its startState_ then reads 0 from the empty mapping).               *)
(***************************************************************************)
MaxOffset == 2

StatelessNFAs ==
  {NewNFA} \cup {movedFrom(a) : a \in {createEmpty, createSingle("a")}}
           \cup {renumberStates(NewNFA, offset) : offset \in 0..MaxOffset}

InitStateless ==
  /\ pc = "nfa"
  /\ nfa \in StatelessNFAs
  /\ pattern = <<>>
  /\ ast = NullAST
  /\ dfa = NewDFA
  /\ other = NewDFA
  /\ out = NewDFA
  /\ out2 = NewDFA
  /\ input = <<>>
  /\ result = NoResult
  /\ matches = <<>>
  /\ NoPushdown

NextStateless ==
  \/ Determinize
  \/ Minimize
  \/ \E w \in Words : Accepts(w)

SpecStateless == InitStateless /\ [][NextStateless]_vars

(***************************************************************************)
(* epsilonClosure of a set of states: run.states is the set given and      *)
(* run.closure the set returned.                                           *)
(***************************************************************************)
MaxClosureStates == 3

\* The largest state id in a set given to epsilonClosure.
MaxClosureId == 5

\* The NFAs of n states with epsilon transitions only, any of them, and
\* the NFAs of a*, (a*)* and a+, whose epsilon transitions form cycles.
ClosureNFAs(n) ==
  {MakeNFA(n, {n - 1}, 0, SortedTransitions(T)) :
     T \in SUBSET ((0..(n - 1)) \X (0..(n - 1)) \X {EPSILON})}
  \cup {createStar(createSingle("a")), createStar(createStar(createSingle("a"))),
        createPlus(createSingle("a"))}

EpsilonClosure(S) ==
  /\ pc = "nfa"
  /\ S \subseteq DOMAIN nfa.states
  /\ run' = [states |-> S, closure |-> epsilonClosure(nfa, S)]
  /\ pc' = "closed"
  /\ UNCHANGED <<pda, cfg, matcher, pattern, ast, nfa, dfa, other, out, out2,
                 input, result, matches>>

\* epsilonClosure of the set that epsilonClosure returned.
EpsilonClosureAgain ==
  /\ pc = "closed"
  /\ run' = [states |-> run.closure, closure |-> epsilonClosure(nfa, run.closure)]
  /\ pc' = "closed again"
  /\ UNCHANGED <<pda, cfg, matcher, pattern, ast, nfa, dfa, other, out, out2,
                 input, result, matches>>

InitClosure ==
  /\ pc = "nfa"
  /\ nfa \in ClosureNFAs(MaxClosureStates)
  /\ run = [states |-> {}, closure |-> {}]
  /\ pda = NewPDA
  /\ cfg = NewCFG
  /\ matcher = NoMatcher
  /\ pattern = <<>>
  /\ ast = NullAST
  /\ dfa = NewDFA
  /\ other = NewDFA
  /\ out = NewDFA
  /\ out2 = NewDFA
  /\ input = <<>>
  /\ result = NoResult
  /\ matches = <<>>

NextClosure ==
  \/ \E S \in SUBSET (0..MaxClosureId) : EpsilonClosure(S)
  \/ EpsilonClosureAgain

SpecClosure == InitClosure /\ [][NextClosure]_vars

(***************************************************************************)
(* A matcher from its constructor on, the maximal distance negative or     *)
(* zero: run.threw names the exception that left the last call, "" when it *)
(* returned.                                                               *)
(***************************************************************************)
MaxNegativeDistance == 2

\* ApproximateMatcher::ApproximateMatcher: nothing in it throws.
Construct(p, maxDistance, editTypes) ==
  /\ pc = "new"
  /\ matcher' = ApproximateMatcher(p, maxDistance, editTypes)
  /\ run' = [threw |-> "", accepted |-> FALSE]
  /\ pc' = "matcher"
  /\ UNCHANGED <<pda, cfg, pattern, ast, nfa, dfa, other, out, out2, input,
                 result, matches>>

\* matches(w), n being what buildNFA returned or was building when it threw.
MatchesReturns(n, w) ==
  /\ input' = w
  /\ run' = [threw |-> n.exc, accepted |-> n.exc = "" /\ NFA_accepts(n, w)]
  /\ pc' = "accepts"
  /\ UNCHANGED <<pda, cfg, matcher, pattern, ast, nfa, dfa, other, out, out2,
                 result, matches>>

MatchesOn(w) ==
  /\ pc = "matcher"
  /\ MatchesReturns(buildNFA_Matcher(matcher), w)

\* findAll(text), n as above.
FindAllReturns(n, text) ==
  /\ input' = text
  /\ run' = [threw |-> n.exc, accepted |-> FALSE]
  /\ matches' = IF n.exc = "" THEN findAllStart(matcher, n, text, 0) ELSE <<>>
  /\ pc' = "found"
  /\ UNCHANGED <<pda, cfg, matcher, pattern, ast, nfa, dfa, other, out, out2,
                 result>>

FindAllOn(text) ==
  /\ pc = "matcher"
  /\ FindAllReturns(buildNFA_Matcher(matcher), text)

InitConstruct ==
  /\ pc = "new"
  /\ matcher = NoMatcher
  /\ pda = NewPDA
  /\ cfg = NewCFG
  /\ run = NoRun
  /\ input = <<>>
  /\ matches = <<>>
  /\ NoRegex

NextConstruct ==
  \/ \E p \in Seqs(MatcherSymbols, MaxMatcherPatLen),
        maxDistance \in (-MaxNegativeDistance)..0, editTypes \in {SUBSTITUTION, ALL} :
       Construct(p, maxDistance, editTypes)
  \/ \E w \in Seqs(MatcherSymbols, MaxMatcherPatLen) : MatchesOn(w)
  \/ \E text \in Seqs(MatcherSymbols, MaxMatcherPatLen) : FindAllOn(text)

SpecConstruct == InitConstruct /\ [][NextConstruct]_vars

(***************************************************************************)
(* JSON: an automaton is rendered by toJson and the text is handed to      *)
(* fromJson.                                                               *)
(***************************************************************************)
MaxJsonStates == 2

MaxJsonTransitions == 1

JsonPushStrings == {<<>>, <<"A">>, EPSILON_UTF8}

JsonPdaTransitions(n) ==
  {PDATransition(from, to, inputSymbol, popSymbol, pushSymbols) :
     from \in 0..(n - 1), to \in 0..(n - 1), inputSymbol \in PdaInputSymbols,
     popSymbol \in {"Z", EPSILON}, pushSymbols \in JsonPushStrings}

JsonPDAs(max) ==
  UNION {{MakePDA(n, acc, start, ts) :
            acc \in SUBSET (0..(n - 1)), start \in 0..(n - 1),
            ts \in Seqs(JsonPdaTransitions(n), MaxJsonTransitions)} : n \in 1..max}

JsonNFAs(max) == NFAInputs(max - 1)

JsonDFAs(max) == DFAInputs(max - 1)

NFA_ToJson ==
  /\ pc = "nfa"
  /\ input' = NFA_toJson(nfa)
  /\ pc' = "nfa json"
  /\ UNCHANGED <<pattern, ast, nfa, dfa, other, out, out2, result, matches,
                 pda, cfg, matcher, run>>

DFA_ToJson ==
  /\ pc = "dfa"
  /\ input' = DFA_toJson(dfa)
  /\ pc' = "dfa json"
  /\ UNCHANGED <<pattern, ast, nfa, dfa, other, out, out2, result, matches,
                 pda, cfg, matcher, run>>

PDA_ToJson ==
  /\ pc = "pda"
  /\ input' = PDA_toJson(pda)
  /\ pc' = "pda json"
  /\ UNCHANGED <<pattern, ast, nfa, dfa, other, out, out2, result, matches,
                 pda, cfg, matcher, run>>

NFA_FromJson ==
  /\ pc = "nfa json"
  /\ result' \in NFA_fromJson(JsonNFAs(MaxJsonStates), input)
  /\ pc' = "nfa back"
  /\ UNCHANGED <<pattern, ast, nfa, dfa, other, out, out2, input, matches,
                 pda, cfg, matcher, run>>

DFA_FromJson ==
  /\ pc = "dfa json"
  /\ result' \in DFA_fromJson(JsonDFAs(MaxJsonStates), input)
  /\ pc' = "dfa back"
  /\ UNCHANGED <<pattern, ast, nfa, dfa, other, out, out2, input, matches,
                 pda, cfg, matcher, run>>

PDA_FromJson ==
  /\ pc = "pda json"
  /\ result' \in PDA_fromJson(JsonPDAs(MaxJsonStates), input)
  /\ pc' = "pda back"
  /\ UNCHANGED <<pattern, ast, nfa, dfa, other, out, out2, input, matches,
                 pda, cfg, matcher, run>>

\* One automaton of one kind, built through its builder operations.
InitJson ==
  /\ \/ (pc = "nfa" /\ nfa \in JsonNFAs(MaxJsonStates) /\ dfa = NewDFA /\ pda = NewPDA)
     \/ (pc = "dfa" /\ nfa = NewNFA /\ dfa \in JsonDFAs(MaxJsonStates) /\ pda = NewPDA)
     \/ (pc = "pda" /\ nfa = NewNFA /\ dfa = NewDFA /\ pda \in JsonPDAs(MaxJsonStates))
  /\ pattern = <<>>
  /\ ast = NullAST
  /\ other = NewDFA
  /\ out = NewDFA
  /\ out2 = NewDFA
  /\ result = NoResult
  /\ input = <<>>
  /\ matches = <<>>
  /\ cfg = NewCFG
  /\ matcher = NoMatcher
  /\ run = NoRun

NextJson ==
  \/ NFA_ToJson
  \/ DFA_ToJson
  \/ PDA_ToJson
  \/ NFA_FromJson
  \/ DFA_FromJson
  \/ PDA_FromJson

SpecJson == InitJson /\ [][NextJson]_vars

(***************************************************************************)
(* The parser alone: one pattern is parsed and the NFA it returns is run   *)
(* on a word.  The patterns are all strings over ParseChars up to          *)
(* MaxParseLen, the counted quantifiers on a few operands, and the         *)
(* malformed quantifiers "a{", "a{x}" and "a{2,x}".                        *)
(***************************************************************************)
MaxParseLen == 3

MaxRepeat == 3

MaxParseWordLen == 4

ParseChars == {"a", "(", ")", "[", "]", "\\", "*", "|", "{", "}", "2", ","}

RepeatOperands ==
  { <<"a">>, <<"(", "a", "b", ")">>, <<"(", "a", "|", "b", ")">>, <<"(", "a", "*", ")">> }

\* x{m}, x{m,} and x{m,n} for the operands x and 0 <= m <= n <= MaxRepeat.
CountedPatterns ==
  UNION {{x \o <<"{">> \o to_string(m) \o <<"}">>,
          x \o <<"{">> \o to_string(m) \o <<",", "}">>} \cup
         {x \o <<"{">> \o to_string(m) \o <<",">> \o to_string(n) \o <<"}">> :
            n \in m..MaxRepeat} :
           x \in RepeatOperands, m \in 0..MaxRepeat}

MalformedQuantifiers ==
  { <<"a", "{">>, <<"a", "{", "x", "}">>, <<"a", "{", "2", ",", "x", "}">>,
    <<"a", "{", "}">>, <<"a", "{", ",", "2", "}">>, <<"a", "{", "2">> }

ParsePatterns == Seqs(ParseChars, MaxParseLen) \cup CountedPatterns \cup MalformedQuantifiers

ParseWords == Seqs({"a", "b", "{"}, MaxParseWordLen)

\* RegexParser::parse(pattern) on a fresh parser: run.threw names the
\* exception that left the call, "" when it returned.
ParsePatternReturns(r) ==
  /\ ast' = r.ast
  /\ nfa' = IF r.ok /\ r.nfa.exc = "" THEN r.nfa ELSE nfa
  /\ run' = [threw |-> IF ~r.ok THEN "ParseException" ELSE r.nfa.exc]
  /\ pc' = IF r.ok /\ r.nfa.exc = "" THEN "nfa" ELSE "error"

ParsePattern ==
  /\ pc = "pattern"
  /\ ParsePatternReturns(parse(pattern, ast))
  /\ UNCHANGED <<pattern, dfa, other, out, out2, input, result, matches,
                 pda, cfg, matcher>>

\* nfa.accepts(w) on the NFA parse returned.
NFA_Accepts(w) ==
  /\ pc = "nfa"
  /\ input' = w
  /\ result' = [NoResult EXCEPT !.nfa = NFA_accepts(nfa, w)]
  /\ pc' = "accepted"
  /\ UNCHANGED <<pattern, ast, nfa, dfa, other, out, out2, matches,
                 pda, cfg, matcher, run>>

InitParse ==
  /\ pc = "pattern"
  /\ pattern \in ParsePatterns
  /\ ast = NullAST
  /\ nfa = NewNFA
  /\ dfa = NewDFA
  /\ other = NewDFA
  /\ out = NewDFA
  /\ out2 = NewDFA
  /\ input = <<>>
  /\ result = NoResult
  /\ matches = <<>>
  /\ NoPushdown

NextParse ==
  \/ ParsePattern
  \/ \E w \in ParseWords : NFA_Accepts(w)

SpecParse == InitParse /\ [][NextParse]_vars

(***************************************************************************)
(* Counted quantifiers whose maximum is below their minimum.               *)
(***************************************************************************)
\* x{m,n} for the operands x and 0 <= n < m <= max.
InvertedPatterns(max) ==
  UNION {{x \o <<"{">> \o to_string(m) \o <<",">> \o to_string(n) \o <<"}">> :
            n \in 0..(m - 1)} :
           x \in RepeatOperands, m \in 1..max}

InitInverted ==
  /\ pc = "pattern"
  /\ pattern \in InvertedPatterns(MaxRepeat)
  /\ ast = NullAST
  /\ nfa = NewNFA
  /\ dfa = NewDFA
  /\ other = NewDFA
  /\ out = NewDFA
  /\ out2 = NewDFA
  /\ input = <<>>
  /\ result = NoResult
  /\ matches = <<>>
  /\ NoPushdown

SpecInverted == InitInverted /\ [][NextParse]_vars

(***************************************************************************)
(* Bracket expressions: the characters between the brackets are any of a,  *)
(* c, '-' and '^', so that classes are listed, ranged (a-c, and the empty  *)
(* c-a), negated and empty.                                                *)
(***************************************************************************)
MaxClassLen == 3

MaxClassWordLen == 2

ClassChars == {"a", "c", "-", "^"}

BracketPatterns(max) == {<<"[">> \o body \o <<"]">> : body \in Seqs(ClassChars, max)}

ClassWords == Seqs({"a", "b", "c", "-", "^"}, MaxClassWordLen)

InitClass ==
  /\ pc = "pattern"
  /\ pattern \in BracketPatterns(MaxClassLen)
  /\ ast = NullAST
  /\ nfa = NewNFA
  /\ dfa = NewDFA
  /\ other = NewDFA
  /\ out = NewDFA
  /\ out2 = NewDFA
  /\ input = <<>>
  /\ result = NoResult
  /\ matches = <<>>
  /\ NoPushdown

NextClass ==
  \/ ParsePattern
  \/ \E w \in ClassWords : NFA_Accepts(w)

SpecClass == InitClass /\ [][NextClass]_vars

(***************************************************************************)
(* One RegexParser that parse is called on again and again: pattern is the *)
(* argument of the last call, run.returned whether the call returned an    *)
(* NFA, run.astString what getASTString() returns after it.                *)
(***************************************************************************)
MaxParseCalls == 3

MaxCallLen == 2

CallPatterns == Seqs({"a", "b", "*", "("}, MaxCallLen)

ParseAgainReturns(p, r) ==
  /\ pattern' = p
  /\ ast' = r.ast
  /\ nfa' = IF r.ok /\ r.nfa.exc = "" THEN r.nfa ELSE nfa
  /\ run' = [calls |-> run.calls + 1,
             returned |-> r.ok /\ r.nfa.exc = "",
             astString |-> getASTString(r.ast)]
  /\ pc' = IF r.ok /\ r.nfa.exc = "" THEN "nfa" ELSE "error"

\* parse(p) on the parser in hand, whatever the last call did.
ParseAgain(p) ==
  /\ run.calls < MaxParseCalls
  /\ ParseAgainReturns(p, parse(p, ast))
  /\ UNCHANGED <<dfa, other, out, out2, input, result, matches, pda, cfg, matcher>>

InitParser ==
  /\ pc = "parser"
  /\ pattern = <<>>
  /\ ast = NullAST
  /\ nfa = NewNFA
  /\ run = [calls |-> 0, returned |-> FALSE, astString |-> <<>>]
  /\ dfa = NewDFA
  /\ other = NewDFA
  /\ out = NewDFA
  /\ out2 = NewDFA
  /\ input = <<>>
  /\ result = NoResult
  /\ matches = <<>>
  /\ pda = NewPDA
  /\ cfg = NewCFG
  /\ matcher = NoMatcher

NextParser == \E p \in CallPatterns : ParseAgain(p)

SpecParser == InitParser /\ [][NextParser]_vars

(***************************************************************************)
(* The builder operations, one call at a time, on one automaton of one     *)
(* kind.  A call that throws leaves the object as the code left it at the  *)
(* throw; run records the call, its arguments, the exception that left it  *)
(* ("" when it returned) and the automaton before the call.  The ids       *)
(* passed range over BuildIds, which holds ids that addState has not       *)
(* returned.                                                               *)
(***************************************************************************)
MaxBuildStates == 2

MaxBuildTransitions == 2

BuildIds == -1..MaxBuildStates

NFA_Returns(call, args, r) ==
  /\ nfa' = [r EXCEPT !.exc = ""]
  /\ run' = [call |-> call, args |-> args, threw |-> r.exc, before |-> nfa]
  /\ UNCHANGED <<pc, pattern, ast, dfa, other, out, out2, input, result, matches,
                 pda, cfg, matcher>>

DFA_Returns(call, args, r) ==
  /\ dfa' = [r EXCEPT !.exc = ""]
  /\ run' = [call |-> call, args |-> args, threw |-> r.exc, before |-> dfa]
  /\ UNCHANGED <<pc, pattern, ast, nfa, other, out, out2, input, result, matches,
                 pda, cfg, matcher>>

PDA_Returns(call, args, r) ==
  /\ pda' = [r EXCEPT !.exc = ""]
  /\ run' = [call |-> call, args |-> args, threw |-> r.exc, before |-> pda]
  /\ UNCHANGED <<pc, pattern, ast, nfa, dfa, other, out, out2, input, result, matches,
                 cfg, matcher>>

NFA_AddState(isAccepting) ==
  /\ pc = "build nfa"
  /\ nfa.nextStateId < MaxBuildStates
  /\ NFA_Returns("addState", <<isAccepting>>, NFA_addState(nfa, isAccepting))

NFA_SetStartState(id) ==
  /\ pc = "build nfa"
  /\ NFA_Returns("setStartState", <<id>>, NFA_setStartState(nfa, id))

NFA_SetAcceptingState(id, accepting) ==
  /\ pc = "build nfa"
  /\ NFA_Returns("setAcceptingState", <<id, accepting>>, NFA_setAcceptingState(nfa, id, accepting))

NFA_AddTransition(from, to, symbol) ==
  /\ pc = "build nfa"
  /\ Len(nfa.transitions) < MaxBuildTransitions
  /\ NFA_Returns("addTransition", <<from, to, symbol>>,
                 NFA_addTransition(nfa, from, to, symbol))

DFA_AddState(isAccepting) ==
  /\ pc = "build dfa"
  /\ dfa.nextStateId < MaxBuildStates
  /\ DFA_Returns("addState", <<isAccepting>>, DFA_addState(dfa, isAccepting))

DFA_SetStartState(id) ==
  /\ pc = "build dfa"
  /\ DFA_Returns("setStartState", <<id>>, DFA_setStartState(dfa, id))

DFA_SetAcceptingState(id, accepting) ==
  /\ pc = "build dfa"
  /\ DFA_Returns("setAcceptingState", <<id, accepting>>, DFA_setAcceptingState(dfa, id, accepting))

DFA_AddTransition(from, to, symbol) ==
  /\ pc = "build dfa"
  /\ Len(dfa.transitions) < MaxBuildTransitions
  /\ DFA_Returns("addTransition", <<from, to, symbol>>,
                 DFA_addTransition(dfa, from, to, symbol))

PDA_AddState(isAccepting) ==
  /\ pc = "build pda"
  /\ pda.nextStateId < MaxBuildStates
  /\ PDA_Returns("addState", <<isAccepting>>, PDA_addState(pda, isAccepting))

PDA_SetStartState(id) ==
  /\ pc = "build pda"
  /\ PDA_Returns("setStartState", <<id>>, PDA_setStartState(pda, id))

PDA_SetAcceptingState(id, accepting) ==
  /\ pc = "build pda"
  /\ PDA_Returns("setAcceptingState", <<id, accepting>>, PDA_setAcceptingState(pda, id, accepting))

PDA_AddTransition(from, to) ==
  /\ pc = "build pda"
  /\ Len(pda.transitions) < MaxBuildTransitions
  /\ PDA_Returns("addTransition", <<from, to>>,
                 PDA_addTransition(pda, from, to, "a", "$", <<>>))

\* A freshly constructed automaton of one of the three kinds.
InitBuild ==
  /\ pc \in {"build nfa", "build dfa", "build pda"}
  /\ run = [call |-> "", args |-> <<>>, threw |-> "", before |-> NewNFA]
  /\ input = <<>>
  /\ matches = <<>>
  /\ cfg = NewCFG
  /\ pda = NewPDA
  /\ matcher = NoMatcher
  /\ NoRegex

NextBuild ==
  \/ \E isAccepting \in BOOLEAN : NFA_AddState(isAccepting)
  \/ \E id \in BuildIds : NFA_SetStartState(id)
  \/ \E id \in BuildIds, accepting \in BOOLEAN : NFA_SetAcceptingState(id, accepting)
  \/ \E from \in BuildIds, to \in BuildIds, symbol \in NfaSigma :
       NFA_AddTransition(from, to, symbol)
  \/ \E isAccepting \in BOOLEAN : DFA_AddState(isAccepting)
  \/ \E id \in BuildIds : DFA_SetStartState(id)
  \/ \E id \in BuildIds, accepting \in BOOLEAN : DFA_SetAcceptingState(id, accepting)
  \/ \E from \in BuildIds, to \in BuildIds, symbol \in Sigma :
       DFA_AddTransition(from, to, symbol)
  \/ \E isAccepting \in BOOLEAN : PDA_AddState(isAccepting)
  \/ \E id \in BuildIds : PDA_SetStartState(id)
  \/ \E id \in BuildIds, accepting \in BOOLEAN : PDA_SetAcceptingState(id, accepting)
  \/ \E from \in BuildIds, to \in BuildIds : PDA_AddTransition(from, to)

SpecBuild == InitBuild /\ [][NextBuild]_vars

(***************************************************************************)
(* Thompson compositions on two NFA objects, nfa and other: each call      *)
(* builds out and leaves its operands renumbered or moved from, and the    *)
(* objects can be passed again.  run counts the calls each object has been *)
(* passed to, and holds the exception of the last call and the number of   *)
(* states its operands had.                                                *)
(***************************************************************************)
MaxCompositions == 2

Operands == {createEmpty, createSingle("a"), createSingle("b")}

NumberOfStates(n) == Cardinality(DOMAIN n.states)

\* The call passed the first object (first), the second (second) or both.
Composed(r, first, second, left, states) ==
  /\ run.calls < MaxCompositions
  /\ out' = IF r.exc = "" THEN r ELSE out
  /\ nfa' = left[1]
  /\ other' = left[2]
  /\ run' = [calls |-> run.calls + 1,
             passed |-> [run.passed EXCEPT ![1] = @ + (IF first THEN 1 ELSE 0),
                                           ![2] = @ + (IF second THEN 1 ELSE 0)],
             reused |-> (first /\ run.passed[1] > 0) \/ (second /\ run.passed[2] > 0),
             threw |-> r.exc,
             states |-> states]
  /\ pc' = "composed"
  /\ UNCHANGED <<pattern, ast, dfa, out2, input, result, matches, pda, cfg, matcher>>

CreateUnion ==
  \/ Composed(createUnion(nfa, other), TRUE, TRUE, leftByUnion(nfa, other),
              NumberOfStates(nfa) + NumberOfStates(other) + 2)
  \/ Composed(createUnion(other, nfa), TRUE, TRUE,
              <<leftByUnion(other, nfa)[2], leftByUnion(other, nfa)[1]>>,
              NumberOfStates(nfa) + NumberOfStates(other) + 2)

CreateConcat ==
  \/ Composed(createConcat(nfa, other), TRUE, TRUE, leftByConcat(nfa, other),
              NumberOfStates(nfa) + NumberOfStates(other))
  \/ Composed(createConcat(other, nfa), TRUE, TRUE,
              <<leftByConcat(other, nfa)[2], leftByConcat(other, nfa)[1]>>,
              NumberOfStates(nfa) + NumberOfStates(other))

CreateStar ==
  \/ Composed(createStar(nfa), TRUE, FALSE, <<leftByStar(nfa), other>>,
              NumberOfStates(nfa) + 2)
  \/ Composed(createStar(other), FALSE, TRUE, <<nfa, leftByStar(other)>>,
              NumberOfStates(other) + 2)

CreatePlus ==
  \/ Composed(createPlus(nfa), TRUE, FALSE, <<leftByPlus(nfa), other>>,
              2 * NumberOfStates(nfa) + 2)
  \/ Composed(createPlus(other), FALSE, TRUE, <<nfa, leftByPlus(other)>>,
              2 * NumberOfStates(other) + 2)

CreateOptional ==
  \/ Composed(createOptional(nfa), TRUE, FALSE, <<leftByOptional(nfa), other>>,
              NumberOfStates(nfa) + 2)
  \/ Composed(createOptional(other), FALSE, TRUE, <<nfa, leftByOptional(other)>>,
              NumberOfStates(other) + 2)

\* Two NFAs fresh from createEmpty or createSingle.
InitCompose ==
  /\ pc = "operands"
  /\ nfa \in Operands
  /\ other \in Operands
  /\ out = NewNFA
  /\ run = [calls |-> 0, passed |-> <<0, 0>>, reused |-> FALSE, threw |-> "",
            states |-> 0]
  /\ pattern = <<>>
  /\ ast = NullAST
  /\ dfa = NewDFA
  /\ out2 = NewDFA
  /\ input = <<>>
  /\ result = NoResult
  /\ matches = <<>>
  /\ pda = NewPDA
  /\ cfg = NewCFG
  /\ matcher = NoMatcher

NextCompose ==
  \/ CreateUnion
  \/ CreateConcat
  \/ CreateStar
  \/ CreatePlus
  \/ CreateOptional

SpecCompose == InitCompose /\ [][NextCompose]_vars

(***************************************************************************)
(* Thompson compositions nested in one another, every operand a fresh NFA  *)
(* that a builder returned and that is passed once: out is the NFA the     *)
(* last composition returned, run.first and run.second the operands it was *)
(* given, as they were before the call.                                    *)
(***************************************************************************)
MaxNesting == 3

Thompson(call, r, a, b) ==
  /\ run.calls < MaxNesting
  /\ r.exc = ""
  /\ out' = r
  /\ run' = [calls |-> run.calls + 1, call |-> call, first |-> a, second |-> b]
  /\ pc' = "composed"
  /\ UNCHANGED <<pattern, ast, dfa, out2, input, result, matches, pda, cfg, matcher>>

\* The composition takes the place of nfa, and a fresh operand that of other.
ThompsonUnion ==
  /\ \/ Thompson("createUnion", createUnion(nfa, other), nfa, other)
        /\ nfa' = createUnion(nfa, other)
     \/ Thompson("createUnion", createUnion(other, nfa), other, nfa)
        /\ nfa' = createUnion(other, nfa)
  /\ other' \in Operands

ThompsonConcat ==
  /\ \/ Thompson("createConcat", createConcat(nfa, other), nfa, other)
        /\ nfa' = createConcat(nfa, other)
     \/ Thompson("createConcat", createConcat(other, nfa), other, nfa)
        /\ nfa' = createConcat(other, nfa)
  /\ other' \in Operands

ThompsonStar ==
  \/ Thompson("createStar", createStar(nfa), nfa, NewNFA)
     /\ nfa' = createStar(nfa) /\ other' = other
  \/ Thompson("createStar", createStar(other), other, NewNFA)
     /\ other' = createStar(other) /\ nfa' = nfa

ThompsonPlus ==
  \/ Thompson("createPlus", createPlus(nfa), nfa, NewNFA)
     /\ nfa' = createPlus(nfa) /\ other' = other
  \/ Thompson("createPlus", createPlus(other), other, NewNFA)
     /\ other' = createPlus(other) /\ nfa' = nfa

ThompsonOptional ==
  \/ Thompson("createOptional", createOptional(nfa), nfa, NewNFA)
     /\ nfa' = createOptional(nfa) /\ other' = other
  \/ Thompson("createOptional", createOptional(other), other, NewNFA)
     /\ other' = createOptional(other) /\ nfa' = nfa

InitThompson ==
  /\ pc = "operands"
  /\ nfa \in Operands
  /\ other \in Operands
  /\ out = NewNFA
  /\ run = [calls |-> 0, call |-> "", first |-> NewNFA, second |-> NewNFA]
  /\ pattern = <<>>
  /\ ast = NullAST
  /\ dfa = NewDFA
  /\ out2 = NewDFA
  /\ input = <<>>
  /\ result = NoResult
  /\ matches = <<>>
  /\ pda = NewPDA
  /\ cfg = NewCFG
  /\ matcher = NoMatcher

NextThompson ==
  \/ ThompsonUnion
  \/ ThompsonConcat
  \/ ThompsonStar
  \/ ThompsonPlus
  \/ ThompsonOptional

SpecThompson == InitThompson /\ [][NextThompson]_vars

(***************************************************************************)
(* The XML tag validator on strings of the tags a and b.                   *)
(***************************************************************************)
MaxXmlLen == 4

XmlWords == Seqs({"a", "b", "A", "B"}, MaxXmlLen)

CreateXMLValidator ==
  /\ pc = "new"
  /\ pda' = createXMLValidator
  /\ pc' = "pda"
  /\ UNCHANGED <<cfg, matcher, run, pattern, ast, nfa, dfa, other, out, out2,
                 input, result, matches>>

InitXML ==
  /\ pc = "new"
  /\ pda = NewPDA
  /\ cfg = NewCFG
  /\ matcher = NoMatcher
  /\ run = NoRun
  /\ input = <<>>
  /\ matches = <<>>
  /\ NoRegex

NextXML ==
  \/ CreateXMLValidator
  \/ \E w \in XmlWords : AcceptsByFinalState(w)
  \/ \E w \in XmlWords : AcceptsByEmptyStack(w)

SpecXML == InitXML /\ [][NextXML]_vars

(***************************************************************************)
(* The palindrome recognizer on strings of a and b, its search under the   *)
(* iteration cap of the code.                                              *)
(***************************************************************************)
MaxPalindromeLen == 6

\* size_t maxIterations = 10000 of acceptsByFinalState.
maxIterationsOfCode == 10000

CreatePalindromeRecognizer ==
  /\ pc = "new"
  /\ pda' = createPalindromeRecognizer
  /\ pc' = "pda"
  /\ UNCHANGED <<cfg, matcher, run, pattern, ast, nfa, dfa, other, out, out2,
                 input, result, matches>>

\* acceptsByFinalState(w), the cap as the code has it.
AcceptsByFinalStateCapped(w) ==
  /\ pc = "pda"
  /\ input' = w
  /\ run' = finalStateRun(pda, w, maxIterationsOfCode)
  /\ pc' = "final"
  /\ UNCHANGED <<pda, cfg, matcher, pattern, ast, nfa, dfa, other, out, out2,
                 result, matches>>

NextPalindrome ==
  \/ CreatePalindromeRecognizer
  \/ \E w \in Seqs({"a", "b"}, MaxPalindromeLen) : AcceptsByFinalStateCapped(w)

SpecPalindrome == InitXML /\ [][NextPalindrome]_vars

(***************************************************************************)
(* The standard language of a regular expression, on the syntax tree the   *)
(* parser returns: the reference the compiled automata are compared with.  *)
(***************************************************************************)
PlainTypes ==
  {"NULL", "EPSILON", "CHAR", "UNION", "CONCAT", "STAR", "PLUS", "OPTIONAL", "GROUP"}

\* The tree uses literals, '|', concatenation, '*', '+', '?' and groups only.
RECURSIVE Plain(_)
Plain(node) ==
  /\ node.type \in PlainTypes
  /\ \A i \in 1..Len(node.children) : Plain(node.children[i])

Prefix(w, i) == SubSeq(w, 1, i)

Suffix(w, i) == SubSeq(w, i + 1, Len(w))

RECURSIVE Matches(_, _)
Matches(node, w) ==
  CASE node.type \in {"NULL", "EPSILON"} -> w = <<>>
    [] node.type = "CHAR" -> w = <<node.value>>
    [] node.type = "GROUP" -> Matches(node.children[1], w)
    [] node.type = "UNION" ->
         Matches(node.children[1], w) \/ Matches(node.children[2], w)
    [] node.type = "CONCAT" ->
         \E i \in 0..Len(w) : /\ Matches(node.children[1], Prefix(w, i))
                              /\ Matches(node.children[2], Suffix(w, i))
    [] node.type = "STAR" ->
         \/ w = <<>>
         \/ \E i \in 1..Len(w) : /\ Matches(node.children[1], Prefix(w, i))
                                 /\ Matches(node, Suffix(w, i))
    [] node.type = "PLUS" ->
         \/ Matches(node.children[1], w)
         \/ \E i \in 1..(Len(w) - 1) : /\ Matches(node.children[1], Prefix(w, i))
                                       /\ Matches(node, Suffix(w, i))
    [] node.type = "OPTIONAL" -> w = <<>> \/ Matches(node.children[1], w)
    [] OTHER -> FALSE

NumStates(d) == Cardinality(DOMAIN d.states)

\* C1: for every regex and every input string, the NFA that parse built, the
\* DFA that fromNFA built from it and the DFA that minimize built from that
\* one return the same accepts(w).
C1_SameAccepts ==
  pc = "matched" => /\ result.nfa = result.dfa
                    /\ result.dfa = result.out

\* (a|b)*abb on "abb": all three accept, and minimize has merged two states.
C1_Witness ==
  /\ pc = "matched"
  /\ pattern = Pat_S3
  /\ input = Str_abb
  /\ result = [nfa |-> TRUE, dfa |-> TRUE, out |-> TRUE]
  /\ NumStates(out) < NumStates(dfa)

\* C2: for a regex of literals, '|', concatenation, '*', '+', '?' and groups,
\* the NFA that parse returns accepts w exactly when w is in the standard
\* language of the regex; a(b|c)*d accepts "abcbd" and "ad" and rejects "ab"
\* and "".
C2_StandardLanguage ==
  /\ pc = "matched" /\ Plain(ast) => result.nfa = Matches(ast, input)
  /\ pc = "matched" /\ pattern = Pat_S1 =>
       /\ input \in {<<"a", "b", "c", "b", "d">>, <<"a", "d">>} => result.nfa
       /\ input \in {<<"a", "b">>, <<>>} => ~result.nfa

\* (ab)+ on "abab": the second copy of the operand of '+' has been used.
C2_Witness ==
  /\ pc = "matched"
  /\ pattern = <<"(", "a", "b", ")", "+">>
  /\ Plain(ast)
  /\ input = <<"a", "b", "a", "b">>
  /\ result.nfa

\* Whether each symbol of w finds a transition on the walk of d from its
\* start state.
RECURSIVE WalkDefinedFrom(_, _, _)
WalkDefinedFrom(d, current, w) ==
  \/ w = <<>>
  \/ /\ <<current, w[1]>> \in DOMAIN d.transitionTable
     /\ WalkDefinedFrom(d, d.transitionTable[<<current, w[1]>>], Tail(w))

WalkDefined(d, w) == WalkDefinedFrom(d, d.startState, w)

SameLanguage(d1, d2) == \A w \in Words : DFA_accepts(d1, w) = DFA_accepts(d2, w)

\* d1 and d2 are the same automaton up to a renaming f of the state ids.
Renames(f, d1, d2) ==
  /\ \A x, y \in DOMAIN f : f[x] = f[y] => x = y
  /\ f[d1.startState] = d2.startState
  /\ {f[x] : x \in d1.acceptingStates} = d2.acceptingStates
  /\ {<<f[k[1]], k[2], f[d1.transitionTable[k]]>> : k \in DOMAIN d1.transitionTable}
       = {<<k[1], k[2], d2.transitionTable[k]>> : k \in DOMAIN d2.transitionTable}

Isomorphic(d1, d2) ==
  /\ NumStates(d1) = NumStates(d2)
  /\ IF NumStates(d1) = 0 THEN d1.startState = d2.startState
     ELSE \E f \in [DOMAIN d1.states -> DOMAIN d2.states] : Renames(f, d1, d2)

\* C3: for every DFA, partial ones included, minimize completes without the
\* error of a conflicting transition, its result accepts the same strings as
\* the DFA and has no more states.
C3_MinimizePreserves ==
  /\ pc # "error"
  /\ pc = "min" => /\ SameLanguage(out, dfa)
                   /\ NumStates(out) <= NumStates(dfa)

\* A partial DFA of two accepting states, merged into one that accepts "a".
C3_Witness ==
  /\ pc = "min"
  /\ NumStates(dfa) = 2
  /\ Cardinality(DOMAIN dfa.transitionTable) < 4
  /\ NumStates(out) = 1
  /\ DFA_accepts(out, <<"a">>)

\* C5: minimising the result of minimize again gives a DFA with the same
\* number of states, isomorphic to it: same start, accepting states and
\* transitions under a bijection of the state ids.
C5_MinimizeIdempotent ==
  /\ pc # "error2"
  /\ pc = "min2" => /\ NumStates(out2) = NumStates(out)
                    /\ Isomorphic(out, out2)

\* The second minimize ran on the three states left of the four of
\* DFA_Chain and numbered them differently.
C5_Witness ==
  /\ pc = "min2"
  /\ dfa = DFA_Chain
  /\ NumStates(out) = 3
  /\ out2.startState # out.startState


\* What the claim says of the structure of complement(d): the states, start
\* state and transitions of d, accepting exactly where d does not.
ComplementFlips(d, c) ==
  /\ DOMAIN c.states = DOMAIN d.states
  /\ c.startState = d.startState
  /\ c.transitions = d.transitions
  /\ c.transitionTable = d.transitionTable
  /\ c.acceptingStates = DOMAIN d.states \ d.acceptingStates

\* What the claim says of accepts: on a defined walk the answers are
\* opposite, on a walk that meets an undefined transition both are FALSE.
ComplementAnswers(d, c, w) ==
  IF WalkDefined(d, w) THEN DFA_accepts(c, w) = ~DFA_accepts(d, w)
  ELSE ~DFA_accepts(d, w) /\ ~DFA_accepts(c, w)

\* C8 as stated: complement(d) has the states, start state and transitions
\* of d and accepts exactly in the states where d does not; for every w with
\* a walk defined on every symbol complement(d).accepts(w) = ~d.accepts(w),
\* and for every w that meets an undefined transition both reject.
C8_Original ==
  pc = "comp" => /\ ComplementFlips(dfa, out)
                 /\ \A w \in Words : ComplementAnswers(dfa, out, w)

\* C8, amended: the same for every DFA that has at least one state; a DFA
\* without states has no start state, and it and its complement reject every
\* string, the empty one included.
C8_ComplementNonEmpty ==
  pc = "comp" =>
    /\ ComplementFlips(dfa, out)
    /\ NumStates(dfa) > 0 => \A w \in Words : ComplementAnswers(dfa, out, w)
    /\ NumStates(dfa) = 0 => \A w \in Words : ~DFA_accepts(dfa, w) /\ ~DFA_accepts(out, w)

\* A partial DFA of two states: "ab" has a defined walk, d rejects it and the
\* complement accepts it; "b" meets an undefined transition.
C8_Witness ==
  /\ pc = "comp"
  /\ NumStates(dfa) = 2
  /\ WalkDefined(dfa, <<"a", "b">>)
  /\ ~DFA_accepts(dfa, <<"a", "b">>)
  /\ DFA_accepts(out, <<"a", "b">>)
  /\ ~WalkDefined(dfa, <<"b">>)
  /\ ~DFA_accepts(out, <<"b">>)

\* The substring text[i..j) with indices from 0.
Substring(text, i, j) == SubSeq(text, i + 1, j)

\* C9: findAllMatches(text) returns, each once, exactly the pairs (i, j) with
\* 0 <= i < |text| and i <= j <= |text| for which the DFA accepts text[i..j),
\* the pair (i, i) for every i included when the start state is accepting.
C9_AllMatches ==
  pc = "matches" =>
    /\ \A k1, k2 \in 1..Len(matches) : k1 # k2 => matches[k1] # matches[k2]
    /\ Range(matches) =
         {m \in (0..(Len(input) - 1)) \X (0..Len(input)) :
            m[1] <= m[2] /\ DFA_accepts(dfa, Substring(input, m[1], m[2]))}
    /\ dfa.startState \in dfa.acceptingStates =>
         \A i \in 0..(Len(input) - 1) : <<i, i>> \in Range(matches)

\* A text of three symbols with a zero-length match, a match of its last two
\* symbols, and a start index without any match of length one.
C9_Witness ==
  /\ pc = "matches"
  /\ Len(input) = 3
  /\ <<0, 0>> \in Range(matches)
  /\ <<1, 3>> \in Range(matches)
  /\ <<1, 2>> \notin Range(matches)

\* C10: the list findAllMatches returns is sorted: the start positions never
\* decrease along it, and entries with the same start position have strictly
\* increasing end positions.
C10_MatchesSorted ==
  pc = "matches" =>
    \A k1, k2 \in 1..Len(matches) :
      k1 < k2 => /\ matches[k1][1] <= matches[k2][1]
                 /\ matches[k1][1] = matches[k2][1] => matches[k1][2] < matches[k2][2]

\* A list with two matches from the same start and a match from a later one.
C10_Witness ==
  /\ pc = "matches"
  /\ \E k \in 1..(Len(matches) - 1) :
       matches[k][1] = matches[k + 1][1] /\ matches[k][2] < matches[k + 1][2]
  /\ \E k \in 1..(Len(matches) - 1) : matches[k][1] < matches[k + 1][1]

\* Whether some string over the alphabet of d is accepted from one of the
\* states p and q and not from the other; a string no longer than the
\* number of states tells any two states apart that can be told apart.
Distinguishable(d, p, q) ==
  \E w \in Seqs(d.alphabet, NumStates(d)) : walk(d, p, w) # walk(d, q, w)

\* C4: in the DFA that minimize returns for a DFA made by subset
\* construction no two distinct states are equivalent: some string is
\* accepted from one and not from the other; the minimised DFA of (a|b)*abb
\* has exactly 4 states.
C4_Minimal ==
  pc = "min" =>
    /\ \A p, q \in DOMAIN out.states : p # q => Distinguishable(out, p, q)
    /\ pattern = Pat_S3 => NumStates(out) = 4

\* C6: for all DFAs a and b, partial or over different alphabets, and every
\* string w, intersection(a, b) returns a DFA that accepts w exactly when a
\* and b both accept w.
C6_Intersection ==
  /\ pc # "error_and"
  /\ pc = "and" =>
       \A w \in Words : DFA_accepts(out, w) = (DFA_accepts(dfa, w) /\ DFA_accepts(other, w))

\* Scenario S6: the product of the DFAs of a*b and ab* accepts "ab" and
\* rejects "a" and "abb", which one operand alone accepts.
C6_Witness ==
  /\ pc = "and"
  /\ DFA_accepts(out, <<"a", "b">>)
  /\ DFA_accepts(dfa, Str_abb) # DFA_accepts(other, Str_abb)
  /\ ~DFA_accepts(out, Str_abb)
  /\ ~DFA_accepts(out, <<"a">>)
  /\ dfa.alphabet = {"a", "b"}
  /\ NumStates(other) > 1

\* The state that the walk of d on w ends in: none when a transition is
\* missing on the way.
RECURSIVE EndFrom(_, _, _)
EndFrom(d, current, w) ==
  IF w = <<>> THEN <<current>>
  ELSE IF <<current, w[1]>> \in DOMAIN d.transitionTable
       THEN EndFrom(d, d.transitionTable[<<current, w[1]>>], Tail(w))
  ELSE <<>>

End(d, w) == EndFrom(d, d.startState, w)

\* The pair that the walks of a and b on w end in, -1 standing for a walk
\* that has fallen off.
EndPair(a, b, w) ==
  <<IF End(a, w) = <<>> THEN -1 ELSE End(a, w)[1],
    IF End(b, w) = <<>> THEN -1 ELSE End(b, w)[1]>>

\* The walk of the union on w ends in the state of the pair of its operands,
\* and nowhere once both operands have fallen off.
FollowsPairs(a, b, u, stateMap, w) ==
  IF EndPair(a, b, w) = <<-1, -1>> /\ w # <<>> THEN End(u, w) = <<>>
  ELSE /\ EndPair(a, b, w) \in DOMAIN stateMap
       /\ End(u, w) = <<stateMap[EndPair(a, b, w)]>>

\* C7: for all DFAs a and b, partial or over different alphabets, and every
\* string w, unionDFA(a, b) accepts w exactly when a or b accepts w; a run
\* that has fallen off one operand goes on with the other through the pairs
\* whose dead component is -1; the construction never adds a second
\* transition for a pair and a symbol.
C7_Union ==
  /\ pc # "error_or"
  /\ pc = "or" =>
       /\ \A w \in Words :
            DFA_accepts(out, w) = (DFA_accepts(dfa, w) \/ DFA_accepts(other, w))
       /\ \A w \in Words :
            FollowsPairs(dfa, other, out, unionDFARun(dfa, other).stateMap, w)
       /\ Len(out.transitions) = Cardinality(DOMAIN out.transitionTable)

\* The union accepts "ab", on which the second operand has fallen off, and
\* "c", on which the first one has.
C7_Witness ==
  /\ pc = "or"
  /\ NumStates(dfa) = 2
  /\ End(dfa, <<"a", "b">>) # <<>>
  /\ End(other, <<"a", "b">>) = <<>>
  /\ ~DFA_accepts(other, <<"a", "b">>)
  /\ DFA_accepts(out, <<"a", "b">>)
  /\ End(dfa, <<"c">>) = <<>>
  /\ DFA_accepts(other, <<"c">>)
  /\ DFA_accepts(out, <<"c">>)

\* Whether w, a string of '(' and ')', is balanced when depth parentheses
\* are open before it.
RECURSIVE BalancedFrom(_, _)
BalancedFrom(w, depth) ==
  IF w = <<>> THEN depth = 0
  ELSE IF w[1] = "(" THEN BalancedFrom(Tail(w), depth + 1)
  ELSE depth > 0 /\ BalancedFrom(Tail(w), depth - 1)

Balanced(w) == BalancedFrom(w, 0)

\* C11: for every string w of '(' and ')', acceptsByFinalState(w) of
\* createBalancedParentheses() is true exactly when w is balanced: true for
\* "", "()", "(())", "()()" and false for "(", ")(" and "(()".
C11_BalancedParentheses ==
  pc = "final" /\ pda = createBalancedParentheses =>
    run.accepted = Balanced(input)

\* Whether the sentential form derives w by leftmost derivations of at most
\* fuel production steps.
RECURSIVE DerivesFrom(_, _, _, _)
DerivesFrom(g, form, w, fuel) ==
  IF form = <<>> THEN w = <<>>
  ELSE IF form[1] \in g.terminals
       THEN w # <<>> /\ w[1] = form[1] /\ DerivesFrom(g, Tail(form), Tail(w), fuel)
  ELSE /\ fuel > 0
       /\ \E i \in 1..Len(g.productions) :
            /\ g.productions[i].lhs = form[1]
            /\ DerivesFrom(g, g.productions[i].rhs \o Tail(form), w, fuel - 1)

\* Each grammar of Grammars spends a step on a symbol of w or on erasing
\* one of at most two nonterminals.
Derives(g, w) == DerivesFrom(g, <<g.startSymbol>>, w, Len(w) + 2)

\* C12: for a CFG G with its terminals registered and a string w within the
\* iteration budget, acceptsByFinalState(w) of G.toPDA() is true exactly
\* when G derives w; after the first move out of the start state the start
\* symbol of G is the stack top, above the bottom marker.
C12_ToPDA ==
  pc = "final" /\ cfg \in Grammars =>
    /\ run.accepted = Derives(cfg, input)
    /\ \A i \in 1..Len(step(pda, initialConfiguration(pda, input))) :
         step(pda, initialConfiguration(pda, input))[i].stack = <<"Z", cfg.startSymbol>>

\* C13: findAcceptingPath(w) terminates for every PDA and input: it takes
\* at most the cap of the boolean entry points from its queue and then
\* reports that no path was found.
C13_PathSearchBounded ==
  pc = "path" => /\ run.returned
                 /\ run.dequeues <= maxIterations

\* The first n configurations a breadth-first search takes from its queue,
\* those met before included, when it stops at none of them.
RECURSIVE Dequeued(_, _, _, _)
Dequeued(p, bfs, visited, n) ==
  IF bfs = <<>> \/ n = 0 THEN <<>>
  ELSE <<Head(bfs)>> \o
       Dequeued(p,
                IF Head(bfs) \in visited THEN Tail(bfs)
                ELSE Tail(bfs) \o step(p, Head(bfs)),
                visited \cup {Head(bfs)}, n - 1)

DequeuedOf(p, w, n) ==
  IF p.startState < 0 THEN <<>>
  ELSE Dequeued(p, <<initialConfiguration(p, w)>>, {}, n)

AcceptingByFinalState(p, c) == c.remainingInput = <<>> /\ c.state \in p.acceptingStates

AcceptingByEmptyStack(c) == c.remainingInput = <<>> /\ c.stack = <<>>

\* C14: acceptsByFinalState(w) and acceptsByEmptyStack(w) return for every
\* PDA and input after at most the cap of dequeues, configurations met
\* before counted, and return false when none of the configurations
\* dequeued by then is accepting (true when one is).
C14_BooleanSearchBounded ==
  /\ pc \in {"final", "empty"} => /\ run.dequeues <= maxIterations
                                  /\ run.accepted \in BOOLEAN
  /\ pc = "final" =>
       run.accepted =
         (\E i \in 1..Len(DequeuedOf(pda, input, maxIterations)) :
            AcceptingByFinalState(pda, DequeuedOf(pda, input, maxIterations)[i]))
  /\ pc = "empty" =>
       run.accepted =
         (\E i \in 1..Len(DequeuedOf(pda, input, maxIterations)) :
            AcceptingByEmptyStack(DequeuedOf(pda, input, maxIterations)[i]))

\* A search cut off by the cap: acceptsByFinalState has dequeued
\* maxIterations configurations of a PDA that can always push, found none
\* accepting and returned false with configurations left to explore.
C14_Witness ==
  /\ pc = "final"
  /\ run = Answer(FALSE, maxIterations)
  /\ Len(DequeuedOf(pda, input, maxIterations + 1)) = maxIterations + 1

\* C15: with the iteration cap as a parameter B, acceptsByFinalState is
\* monotone in B: when the search returns true under a budget it returns
\* true under every larger one, the cap of the code included.
C15_MonotoneInBudget ==
  pc = "final" =>
    /\ \A B \in 0..maxIterations :
         finalStateRun(pda, input, B).accepted =>
           finalStateRun(pda, input, B + 1).accepted
    /\ run.accepted = finalStateRun(pda, input, maxIterations).accepted

\* The budget decides: the search accepts at its third dequeue or later and
\* returns false under a budget of one dequeue less.
C15_Witness ==
  /\ pc = "final"
  /\ run.accepted
  /\ run.dequeues >= 3
  /\ ~finalStateRun(pda, input, run.dequeues - 1).accepted

\* Whether path is a run of p on w that ends in an accepting configuration.
ValidRun(p, w, path) ==
  /\ path # <<>> => path[1].before = initialConfiguration(p, w)
  /\ \A i \in 1..Len(path) :
       /\ Len(path[i].transition) = 1
       /\ \E k \in 1..Len(p.transitions) : p.transitions[k] = path[i].transition[1]
       /\ canFire(path[i].transition[1], path[i].before)
       /\ path[i].after = fire(path[i].transition[1], path[i].before)
  /\ \A i \in 1..(Len(path) - 1) : path[i].after = path[i + 1].before
  /\ path # <<>> => AcceptingByFinalState(p, path[Len(path)].after)

\* C16: a path that findAcceptingPath(w) returns is a valid run: it starts
\* at the initial configuration, each step's after is its transition fired
\* on its before, consecutive steps join, and the last after has no input
\* left and an accepting state.  The empty path is returned exactly when the
\* initial configuration is accepting.
C16_ValidPath ==
  pc = "path" /\ run.returned =>
    /\ run.path # <<>> => ValidRun(pda, input, run.path[1])
    /\ run.path = << <<>> >> <=>
         AcceptingByFinalState(pda, initialConfiguration(pda, input))

\* createAnBn() on "ab": a path of three steps that pushes, pops and moves
\* to the accepting state on the bottom marker.
C16_Witness ==
  /\ pc = "path"
  /\ pda = createAnBn
  /\ input = <<"a", "b">>
  /\ run.returned
  /\ run.path # <<>>
  /\ Len(run.path[1]) = 3

\* The Levenshtein distance of s and t by its recurrence on the first
\* characters.
RECURSIVE Levenshtein(_, _)
Levenshtein(s, t) ==
  IF s = <<>> THEN Len(t)
  ELSE IF t = <<>> THEN Len(s)
  ELSE Min3(Levenshtein(Tail(s), t) + 1,
            Levenshtein(s, Tail(t)) + 1,
            Levenshtein(Tail(s), Tail(t)) + (IF s[1] = t[1] THEN 0 ELSE 1))

\* C17: with all edit types enabled, for every pattern p, maxDistance
\* k >= 0 and string w over the alphabet of the matcher,
\* buildNFA().accepts(w) is true exactly when the Levenshtein distance of p
\* and w is at most k, insertions after the last pattern character included.
C17_LevenshteinNFA ==
  pc = "accepts" /\ matcher.editTypes = ALL =>
    run.accepted = (Levenshtein(matcher.pattern, input) <= matcher.maxDistance)

\* C18: every match (start, end, distance, matchedText) that findAll(text)
\* returns has start < end <= |text|, matchedText = text[start..end),
\* distance <= maxDistance and distance = editDistance(pattern, matchedText),
\* the Levenshtein distance of the two.
C18_MatchesWellFormed ==
  pc = "found" =>
    \A i \in 1..Len(matches) :
      /\ matches[i].start < matches[i].end
      /\ matches[i].end <= Len(input)
      /\ matches[i].matchedText = SubSeq(input, matches[i].start + 1, matches[i].end)
      /\ matches[i].editDistance <= matcher.maxDistance
      /\ matches[i].editDistance = editDistance(matcher.pattern, matches[i].matchedText)
      /\ matches[i].editDistance = Levenshtein(matcher.pattern, matches[i].matchedText)

\* A match at a positive distance that is longer than the pattern: a
\* character was inserted before the last pattern character.
C18_Witness ==
  /\ pc = "found"
  /\ \E i \in 1..Len(matches) :
       /\ matches[i].editDistance = 1
       /\ Len(matches[i].matchedText) > Len(matcher.pattern)
       /\ matches[i].start > 0

\* C19: for a non-empty pattern p, each exact occurrence of p in text at
\* index i is reported by findAll as the match (i, i + |p|, 0, p); findAll
\* on "ATGCGATCG" with pattern "ATG" and k = 1 contains (0, 3, 0, "ATG").
C19_ExactOccurrences ==
  pc = "found" /\ matcher.pattern # <<>> =>
    \A i \in 0..(Len(input) - Len(matcher.pattern)) :
      substr(input, i, Len(matcher.pattern)) = matcher.pattern =>
        \E j \in 1..Len(matches) :
          matches[j] = Match(i, i + Len(matcher.pattern), 0, matcher.pattern)

\* The example: "ATG" in "ATGCGATCG" with k = 1, reported at index 0.
C19_Witness ==
  /\ pc = "found"
  /\ matcher = ApproximateMatcher(Pat_ATG, 1, ALL)
  /\ input = Text_ATGCGATCG
  /\ \E j \in 1..Len(matches) : matches[j] = Match(0, 3, 0, Pat_ATG)

\* The strings one insertion, deletion or substitution away from s, the
\* characters being taken from sigma.
EditNeighbours(s, sigma) ==
  {SubSeq(s, 1, i) \o <<c>> \o SubSeq(s, i + 1, Len(s)) : i \in 0..Len(s), c \in sigma}
  \cup {SubSeq(s, 1, i - 1) \o SubSeq(s, i + 1, Len(s)) : i \in 1..Len(s)}
  \cup {[s EXCEPT ![i] = c] : i \in 1..Len(s), c \in sigma}

\* Whether at most n single-character edits turn s into t.
RECURSIVE WithinEdits(_, _, _, _)
WithinEdits(s, t, n, sigma) ==
  \/ s = t
  \/ /\ n > 0
     /\ \E x \in EditNeighbours(s, sigma) : WithinEdits(x, t, n - 1, sigma)

\* The least number of single-character edits that turn s into t: deleting
\* s and inserting t takes |s| + |t|.
EditsNeeded(s, t) ==
  Min({n \in 0..(Len(s) + Len(t)) : WithinEdits(s, t, n, Range(s) \cup Range(t))})

\* C20: editDistance is the Levenshtein metric: editDistance(s, s) = 0,
\* editDistance(s, t) = editDistance(t, s), editDistance(s, u) <=
\* editDistance(s, t) + editDistance(t, u), and editDistance(s, t) is the
\* least number of single-character insertions, deletions or substitutions
\* that turn s into t.
C20_EditDistanceMetric ==
  pc = "distance" =>
    /\ input[1] = input[2] => run.distance = 0
    /\ run.distance = editDistance(input[2], input[1])
    /\ \A u \in Seqs(MatcherSymbols, MaxTextLen) :
         editDistance(input[1], u) <= run.distance + editDistance(input[2], u)
    /\ run.distance = EditsNeeded(input[1], input[2])

\* editDistance("aab", "bba") = 3: each of the three positions differs and
\* nothing shorter than three edits does it.
C20_Witness ==
  /\ pc = "distance"
  /\ input = << <<"a", "a", "b">>, <<"b", "b", "a">> >>
  /\ run.distance = 3

(***************************************************************************)
(* C21: for every NFA, DFA and PDA a, fromJson(a.toJson()) is an automaton *)
(* equal to a, and its rendering is byte for byte the rendering of a.      *)
(* Violated: a PDA transition that pushes nothing and one that pushes the  *)
(* two bytes of "ε" are rendered alike, so no fromJson tells them apart.   *)
(***************************************************************************)
C21_JsonRoundTrip ==
  /\ pc = "nfa back" => result = nfa /\ NFA_toJson(result) = input
  /\ pc = "dfa back" => result = dfa /\ DFA_toJson(result) = input
  /\ pc = "pda back" => result = pda /\ PDA_toJson(result) = input

(***************************************************************************)
(* The defects of a pattern that C22 names, found by one scan that knows   *)
(* only the lexical shape of a pattern: a backslash takes the next         *)
(* character, '[' opens a class that the next ']' closes, '(' and ')'      *)
(* nest, and a quantifier needs something before it.                       *)
(***************************************************************************)
NextBracket(p, i) == {j \in (i + 1)..Len(p) : p[j] = "]"}

RECURSIVE Defective(_, _, _, _)
Defective(p, i, depth, atom) ==
  IF i > Len(p) THEN depth > 0                          \* an unmatched '('
  ELSE CASE p[i] = "\\" ->
              IF i = Len(p) THEN TRUE                   \* a trailing backslash
              ELSE Defective(p, i + 2, depth, FALSE)
         [] p[i] = "[" ->
              IF NextBracket(p, i) = {} THEN TRUE       \* an unmatched '['
              ELSE Defective(p, Min(NextBracket(p, i)) + 1, depth, FALSE)
         [] p[i] = "(" -> Defective(p, i + 1, depth + 1, TRUE)
         [] p[i] = ")" ->
              IF depth = 0 THEN TRUE                    \* an unmatched ')'
              ELSE Defective(p, i + 1, depth - 1, FALSE)
         [] p[i] = "|" -> Defective(p, i + 1, depth, TRUE)
         [] p[i] \in {"*", "+", "?"} ->
              IF atom THEN TRUE                         \* nothing to repeat
              ELSE Defective(p, i + 1, depth, FALSE)
         [] OTHER -> Defective(p, i + 1, depth, FALSE)

\* C22: parse of a pattern with an unmatched '(' or '[', a trailing
\* backslash, a quantifier in atom position or an unmatched ')' throws a
\* ParseException and returns no automaton.
C22_MalformedRejected ==
  (pc \in {"nfa", "error", "accepted"} /\ Defective(pattern, 1, 0, TRUE))
    => (pc = "error" /\ run.threw = "ParseException" /\ nfa = NewNFA)

C22_Witness ==
  /\ pc = "error"
  /\ pattern = <<"(", "a", "\\">>
  /\ Defective(pattern, 1, 0, TRUE)
  /\ run.threw = "ParseException"

(***************************************************************************)
(* C23: when the text after an atom starts with '{' and is no well-formed  *)
(* counted quantifier ("a{", "a{x}", "a{2,x}"), the pattern compiles and   *)
(* the '{' is a literal: the NFA accepts the pattern read as plain text.   *)
(* Violated: parseRepeat leaves the '{' where it is, and parseAtom then    *)
(* throws on it as a metacharacter.                                        *)
(***************************************************************************)
C23_BraceLiteral ==
  (pc \in {"nfa", "error", "accepted"} /\ pattern \in MalformedQuantifiers)
    => /\ pc # "error"
       /\ pc = "accepted" => (result.nfa <=> input = pattern)

\* w is the concatenation of j strings of the language of node.
RECURSIVE Power(_, _, _)
Power(node, w, j) ==
  IF j = 0 THEN w = <<>>
  ELSE \E i \in 0..Len(w) : /\ Matches(node, Prefix(w, i))
                            /\ Power(node, Suffix(w, i), j - 1)

\* The repetition counts x{m,n} allows on a word of length len: m..n, and
\* from m on when n is -1 (more than len copies add only empty strings).
Counts(m, n, len) == IF n = -1 THEN m..(IF m > len THEN m ELSE len) ELSE m..n

\* C24: for a sub-expression x and 0 <= m <= n, the NFA of x{m,n} accepts w
\* exactly when w is the concatenation of j strings of L(x) for some j with
\* m <= j <= n; x{m} takes exactly m and x{m,} any j >= m; a{2,3} rejects
\* "a" and "aaaa" and accepts "aa" and "aaa".
C24_CountedRepetition ==
  /\ (/\ pc = "accepted"
      /\ ast.type = "REPEAT_N"
      /\ Plain(ast.children[1])
      /\ (ast.maxRepeat = -1 \/ ast.minRepeat <= ast.maxRepeat))
       => (result.nfa <=>
             \E j \in Counts(ast.minRepeat, ast.maxRepeat, Len(input)) :
               Power(ast.children[1], input, j))
  /\ (pc = "accepted" /\ pattern = <<"a", "{", "2", ",", "3", "}">>)
       => /\ input \in {<<"a">>, <<"a", "a", "a", "a">>} => ~result.nfa
          /\ input \in {<<"a", "a">>, <<"a", "a", "a">>} => result.nfa

\* (ab){1,2} on "abab": the optional second copy has been used.
C24_Witness ==
  /\ pc = "accepted"
  /\ pattern = <<"(", "a", "b", ")", "{", "1", ",", "2", "}">>
  /\ ast.type = "REPEAT_N" /\ ast.minRepeat = 1 /\ ast.maxRepeat = 2
  /\ input = <<"a", "b", "a", "b">>
  /\ result.nfa

\* The call in run was addTransition on a (from, symbol) pair that had a
\* transition before the call.
DuplicatePair ==
  /\ run.call = "addTransition"
  /\ \E i \in 1..Len(run.before.transitions) :
       /\ run.before.transitions[i].from = run.args[1]
       /\ run.before.transitions[i].symbol = run.args[3]

\* C25: a DFA under construction never holds two transitions with the same
\* (from, symbol); addTransition on a pair that has one, even to the same
\* target, throws and leaves transitions, table and alphabet as they were.
C25_OneTransitionPerPair ==
  pc = "build dfa" =>
    /\ \A i, j \in 1..Len(dfa.transitions) :
         (/\ dfa.transitions[i].from = dfa.transitions[j].from
          /\ dfa.transitions[i].symbol = dfa.transitions[j].symbol) => i = j
    /\ DuplicatePair =>
         /\ run.threw # ""
         /\ dfa.transitions = run.before.transitions
         /\ dfa.transitionTable = run.before.transitionTable
         /\ dfa.alphabet = run.before.alphabet

\* The rejected call named the target the pair already had.
C25_Witness ==
  /\ pc = "build dfa"
  /\ DuplicatePair
  /\ run.threw = "AutomataException"
  /\ run.before.transitionTable[<<run.args[1], run.args[3]>>] = run.args[2]
  /\ Len(dfa.transitions) = 1

\* The ids the call in run was given.
IdArgs ==
  CASE run.call = "addTransition" -> {run.args[1], run.args[2]}
    [] run.call \in {"setStartState", "setAcceptingState"} -> {run.args[1]}
    [] OTHER -> {}

\* The automaton under construction.
Built ==
  CASE pc = "build nfa" -> nfa
    [] pc = "build dfa" -> dfa
    [] OTHER -> pda

\* C26: on an NFA, a DFA and a PDA, addTransition, setStartState and
\* setAcceptingState given an id that addState never returned throw
\* InvalidStateException and leave the automaton as it was, so that every
\* stored transition joins two existing states.
\* Violated: PDA::addTransition checks neither end.
C26_InvalidIdsRejected ==
  /\ ~(IdArgs \subseteq DOMAIN run.before.states) =>
       /\ run.threw = "InvalidStateException"
       /\ Built = [run.before EXCEPT !.exc = ""]
  /\ \A i \in 1..Len(Built.transitions) :
       {Built.transitions[i].from, Built.transitions[i].to} \subseteq DOMAIN Built.states

\* C28: on an NFA, a DFA and a PDA with at least one state, exactly one
\* state carries the start flag, and it is the one getStartState() reports.
\* Violated: PDA::setStartState leaves the flag on the previous start state.
C28_OneStartFlag ==
  DOMAIN Built.states # {} =>
    {id \in DOMAIN Built.states : Built.states[id].isStart} = {Built.startState}

(***************************************************************************)
(* C27: an NFA that has been passed to a Thompson composition is consumed: *)
(* a second composition that is passed it throws instead of building an    *)
(* automaton from the renumbered or moved-from object, so that every       *)
(* result has one state for each state of its operands and no two of them  *)
(* share an id.                                                            *)
(* Violated: no composition checks anything; the second call returns an    *)
(* automaton, and ids of the reused operand collide with the other's.      *)
(***************************************************************************)
C27_ConsumedOperand ==
  pc = "composed" =>
    /\ run.reused => run.threw # ""
    /\ run.threw = "" => NumberOfStates(out) = run.states

\* The tags of w are properly nested and all closed, open being the tags
\* open so far, innermost last.
RECURSIVE NestedFrom(_, _)
NestedFrom(w, open) ==
  IF w = <<>> THEN open = <<>>
  ELSE IF w[1] \in {"a", "b"} THEN NestedFrom(Tail(w), Append(open, w[1]))
  ELSE /\ open # <<>>
       /\ open[Len(open)] = (IF w[1] = "A" THEN "a" ELSE "b")
       /\ NestedFrom(Tail(w), SubSeq(open, 1, Len(open) - 1))

\* C29: createXMLValidator() accepts a string of opening tags (lowercase)
\* and closing tags (uppercase) exactly when the tags are properly nested
\* and every opened tag is closed; "a" and "abB" are rejected.
\* Violated: the only state accepts and nothing tests the stack at the end.
C29_XmlValidator ==
  pc = "final" /\ pda = createXMLValidator =>
    run.accepted = NestedFrom(input, <<>>)

\* C30: a matcher given a negative maximal distance fails with a
\* DomainError: its construction throws, no NFA is built for it, and
\* matches and findAll yield no result.
\* Violated: the constructor accepts any distance, and matches and findAll
\* then leave buildNFA with an InvalidStateException.
C30_NegativeDistance ==
  (pc # "new" /\ matcher.maxDistance < 0) =>
    /\ run.threw = "DomainError"
    /\ ~run.accepted
    /\ matches = <<>>

\* C31: DFA::fromNFA of an NFA with no states returns, and the DFA it
\* returns has at most one state, none accepting, and accepts no word, the
\* empty word included.
C31_StatelessNFA ==
  (pc # "nfa" /\ NumberOfStates(nfa) = 0) =>
    /\ pc # "error"
    /\ NumberOfStates(dfa) <= 1
    /\ dfa.acceptingStates = {}
    /\ \A id \in DOMAIN dfa.states : ~dfa.states[id].isAccepting
    /\ \A w \in Words : ~DFA_accepts(dfa, w)
    /\ pc = "matched" => ~result.dfa

C31_Witness ==
  /\ pc = "matched"
  /\ nfa = NewNFA
  /\ input = <<>>
  /\ NumberOfStates(dfa) = 1
  /\ ~result.dfa

\* The number of states a composition of a and b is to have.
StatesOf(call, a, b) ==
  CASE call = "createUnion" -> NumberOfStates(a) + NumberOfStates(b) + 2
    [] call = "createConcat" -> NumberOfStates(a) + NumberOfStates(b)
    [] call = "createPlus" -> 2 * NumberOfStates(a) + 2
    [] OTHER -> NumberOfStates(a) + 2

\* C32: a composition of NFAs that the Thompson builders returned has the
\* state ids 0..n-1, n the number of states of the operands (plus 2 but for
\* createConcat, the operand counted twice for createPlus), transitions
\* between existing states only, the start flag on exactly one state, and
\* the accepting set prescribed: the new last state, or for createConcat
\* the accepting states of the second operand moved behind the first; the
\* next addState returns n.
C32_ThompsonShape ==
  pc = "composed" =>
    LET n == StatesOf(run.call, run.first, run.second)
        k == NumberOfStates(run.first)
    IN  /\ DOMAIN out.states = 0..(n - 1)
        /\ \A i \in 1..Len(out.transitions) :
             {out.transitions[i].from, out.transitions[i].to} \subseteq DOMAIN out.states
        /\ Cardinality({id \in DOMAIN out.states : out.states[id].isStart}) = 1
        /\ out.acceptingStates =
             IF run.call = "createConcat"
             THEN {k + id : id \in run.second.acceptingStates}
             ELSE {n - 1}
        /\ NFA_addState(out, FALSE).nextStateId = n + 1
        /\ n \in DOMAIN NFA_addState(out, FALSE).states
        /\ Len(out.transitions) >=
             Len(run.first.transitions) + Len(run.second.transitions)

C32_Witness ==
  /\ pc = "composed"
  /\ run.calls = MaxNesting
  /\ run.call = "createConcat"
  /\ NumberOfStates(run.first) > 2
  /\ NumberOfStates(run.second) > 2
  /\ NumberOfStates(out) = NumberOfStates(run.first) + NumberOfStates(run.second)

\* The states that epsilon transitions lead to from S, S included.
RECURSIVE EpsilonReach(_, _)
EpsilonReach(n, S) ==
  LET T == S \cup {n.transitions[i].to : i \in {j \in 1..Len(n.transitions) :
                     n.transitions[j].from \in S /\ n.transitions[j].symbol = EPSILON}}
  IN  IF T = S THEN S ELSE EpsilonReach(n, T)

\* The states one transition on c leads to from S, and then epsilon transitions.
After(n, S, c) ==
  EpsilonReach(n, {n.transitions[i].to : i \in {j \in 1..Len(n.transitions) :
                     n.transitions[j].from \in S /\ n.transitions[j].symbol = c}})

\* The states of d that its transitions lead to from the states R.
RECURSIVE ReachableFrom(_, _)
ReachableFrom(d, R) ==
  LET T == R \cup {d.transitions[i].to : i \in {j \in 1..Len(d.transitions) :
                     d.transitions[j].from \in R}}
  IN  IF T = R THEN R ELSE ReachableFrom(d, T)

\* The symbols on the transitions of the NFA n and the DFA d, and those of Sigma.
SymbolsOf(n, d) ==
  Sigma \cup {n.transitions[i].symbol : i \in 1..Len(n.transitions)}
        \cup {d.transitions[i].symbol : i \in 1..Len(d.transitions)}

EnabledIn(p, c) ==
  {i \in 1..Len(p.transitions) :
     /\ p.transitions[i].from = c.state
     /\ \/ p.transitions[i].inputSymbol = EPSILON
        \/ (c.remainingInput # <<>> /\ c.remainingInput[1] = p.transitions[i].inputSymbol)
     /\ \/ p.transitions[i].popSymbol = EPSILON
        \/ (c.stack # <<>> /\ c.stack[Len(c.stack)] = p.transitions[i].popSymbol)}

\* The configuration that firing transition t in configuration c yields.
Successor(t, c) ==
  LET rest == IF t.inputSymbol = EPSILON THEN c.remainingInput
              ELSE [j \in 1..(Len(c.remainingInput) - 1) |-> c.remainingInput[j + 1]]
      kept == IF t.popSymbol = EPSILON THEN c.stack
              ELSE [j \in 1..(Len(c.stack) - 1) |-> c.stack[j]]
  IN  [state |-> t.to, remainingInput |-> rest,
       stack |-> [j \in 1..(Len(kept) + Len(t.pushSymbols)) |->
                    IF j <= Len(kept) THEN kept[j] ELSE t.pushSymbols[j - Len(kept)]]]

\* C34: step returns one successor for each enabled transition and no
\* other, in the order the transitions were added: the k-th successor is
\* that of the k-th enabled transition, the first input symbol dropped
\* unless the input symbol is epsilon, the top dropped unless the pop
\* symbol is epsilon, and the push string appended, its last character the
\* new top.
C34_Step ==
  pc = "stepped" =>
    LET E == EnabledIn(pda, run.config)
    IN  /\ Len(run.next) = Cardinality(E)
        /\ \A i \in E :
             run.next[Cardinality({j \in E : j < i}) + 1] =
               Successor(pda.transitions[i], run.config)

C34_Witness ==
  /\ pc = "stepped"
  /\ Len(run.next) = 2
  /\ Len(pda.transitions) = 2
  /\ pda.transitions[1].inputSymbol # EPSILON
  /\ pda.transitions[1].popSymbol # EPSILON
  /\ pda.transitions[1].pushSymbols = <<"A", "Z">>
  /\ pda.transitions[2].inputSymbol = EPSILON
  /\ run.next[1].stack = <<"A", "A", "Z">>
  /\ run.next[1] # run.next[2]

\* C35: a counted repetition {m,n} with n < m is not accepted: parse throws
\* a ParseException on it and returns no NFA.
\* Violated: parseCountedQuantifier never compares the two numbers, and
\* buildNFA makes of x{m,n} the NFA of x{m}.
C35_InvertedRejected ==
  (pc # "pattern" /\ pattern \in InvertedPatterns(MaxRepeat)) =>
    /\ run.threw = "ParseException"
    /\ pc = "error"

\* The characters that the items body[i..] of a bracket expression list: a
\* character, or the characters from one to another when a '-' that is not
\* the last character stands between them.
RECURSIVE Listed(_, _)
Listed(body, i) ==
  IF i > Len(body) THEN {}
  ELSE IF i + 2 <= Len(body) /\ body[i + 1] = "-"
       THEN {c \in Range(Ascii) : /\ AsciiIndex(body[i]) <= AsciiIndex(c)
                                  /\ AsciiIndex(c) <= AsciiIndex(body[i + 2])}
              \cup Listed(body, i + 3)
       ELSE {body[i]} \cup Listed(body, i + 1)

\* The set of the bracket expression p = [body]: with a leading '^', the
\* printable characters that the rest does not list.
ClassSet(p) ==
  IF Len(p) > 2 /\ p[2] = "^" THEN Range(Ascii) \ Listed(SubSeq(p, 3, Len(p) - 1), 1)
  ELSE Listed(SubSeq(p, 2, Len(p) - 1), 1)

\* C36: the NFA of a bracket expression that parse took accepts w exactly
\* when w is one character of the class's set, and never the empty string.
\* Violated: for a class with no character ([] and [c-a]) buildNFA returns
\* createEmpty(), which accepts the empty string.
C36_BracketClass ==
  (pc = "accepted" /\ ast.type = "CHAR_CLASS") =>
    /\ result.nfa <=> (Len(input) = 1 /\ input[1] \in ClassSet(pattern))
    /\ input = <<>> => ~result.nfa

\* The accepting set of the automaton a holds the states flagged accepting
\* and no other.
FlagsMatch(a) ==
  a.acceptingStates = {id \in DOMAIN a.states : a.states[id].isAccepting}

\* C37: in every NFA, DFA and PDA that builder calls, Thompson compositions
\* and the DFA operations make, the accepting set is the set of the states
\* whose accepting flag is set.
\* Violated by a composition on an operand that an earlier composition has
\* renumbered: createConcat keeps the state of its first operand under an id
\* that the second operand's accepting state has too, and returns that id
\* in the accepting set with the flag cleared.
C37_AcceptingFlags ==
  /\ FlagsMatch(nfa)
  /\ FlagsMatch(other)
  /\ FlagsMatch(out)
  /\ FlagsMatch(dfa)
  /\ FlagsMatch(out2)
  /\ FlagsMatch(pda)

\* No epsilon transition of n leads out of the set C.
ClosedUnderEpsilon(n, C) ==
  \A i \in 1..Len(n.transitions) :
    (n.transitions[i].symbol = EPSILON /\ n.transitions[i].from \in C)
      => n.transitions[i].to \in C

\* C38: epsilonClosure(S) returns, on NFAs with epsilon cycles too, the
\* smallest set that contains S and that no epsilon transition leads out
\* of; the closure of a closure is the closure, and the closure of a subset
\* of S is a subset of the closure of S.
C38_EpsilonClosure ==
  /\ pc = "closed" =>
       /\ run.states \subseteq run.closure
       /\ ClosedUnderEpsilon(nfa, run.closure)
       /\ \A D \in SUBSET DOMAIN nfa.states :
            (run.states \subseteq D /\ ClosedUnderEpsilon(nfa, D)) => run.closure \subseteq D
       /\ \A T \in SUBSET run.states : epsilonClosure(nfa, T) \subseteq run.closure
  /\ pc = "closed again" => run.closure = run.states

\* One state whose closure has two more states, on an epsilon cycle.
C38_Witness ==
  /\ pc = "closed"
  /\ Cardinality(run.states) = 1
  /\ Cardinality(run.closure) = 3
  /\ \E i, j \in 1..Len(nfa.transitions) :
       /\ nfa.transitions[i].from # nfa.transitions[i].to
       /\ nfa.transitions[i].symbol = EPSILON /\ nfa.transitions[j].symbol = EPSILON
       /\ nfa.transitions[j].from = nfa.transitions[i].to
       /\ nfa.transitions[j].to = nfa.transitions[i].from

\* C39: after any sequence of parse calls on one parser, when the last
\* call parse(p) returned an NFA, getAST() and getASTString() are those of
\* p, as a new parser gives them for p, the empty pattern included.
\* Violated: parse returns createEmpty() for the empty pattern before it
\* assigns ast_ and astString_, which stay those of the call before.
C39_ASTOfLastPattern ==
  (pc = "nfa" /\ run.returned) =>
    /\ ast = parse(pattern, NullAST).ast
    /\ run.astString = getASTString(parse(pattern, NullAST).ast)

====
